---------------------------- MODULE Spec2Model ----------------------------
(***************************************************************************)
(* State-machine model of the programs of chess-analyzer:                  *)
(*   step3_advanced_recognition.py  (cell classification, FEN assembly)    *)
(*   step0.py                       (board locator, rectifier, 8x8 grid)   *)
(*   step4_pro_analyzer.py          (loading the recognised position)      *)
(*   chess_analyzer.py              (GUI v2.2, clicks on the board)        *)
(*   database.py                    (users, games, analyses, settings)     *)
(*   engine.py                      (ChessEngine: loading and options)     *)
(*   chess_analyzer_gui_complete.py (GUI: analysis thread, best move)      *)
(* Every script is a straight-line program; pc is its position.            *)
(***************************************************************************)
EXTENDS Integers, Sequences, FiniteSets, TLC

VARIABLES
    pc,             \* position of the running script
    folder_exists,  \* step 3: the folder cells/ exists
    cells,          \* step 3: the files cells/cell_<row>_<col>.jpg on disk
    board,          \* step 3: board[row][col], the recognised label
    row, col,       \* loop indices of the running double loop
    empty_count, white_count, black_count,   \* step 3 statistics
    fen_position,   \* step 3: the assembled position string (sequence of characters)
    image_file,     \* step 0: chess_board.jpg on disk ("ok" or "absent")
    image,          \* step 0: what cv2.imread returned
    contours,       \* step 0: the contours found, each with its area and the number
                    \*         of vertices of its polygon approximation
    idx,            \* step 0: position of the contour loop
    board_contour, max_area,   \* step 0: the best 4-vertex contour so far (0 = None)
    pts, rect,      \* step 0: the 4 corners as detected and as ordered
    warped,         \* step 0: the rectified board
    board_size,     \* step 0: side of the rectified board
    grid,           \* step 0: grid[row][col], the rectangle drawn for the cell
    stages,         \* step 0: the stages that have run
    written,        \* step 0: the files written
    probe,          \* step 3: the measurements of the cell file named "probe"
    wnext,          \* step 3 on workers: wnext[w], the next cell of worker w's share
    results_file,   \* step 4: step3_results.txt: absent, or its position line
    s4_board,       \* step 4: self.board of the analyzer
    s4_loaded,      \* step 4: what load_fen_from_step3 returned
    gui_board,      \* GUI: self.board, the piece on each square
    turn,           \* GUI: self.board.turn
    selected_square, promotion_move, promotion_dialog,   \* GUI: selection and promotion
    is_analyzing, best_move, status,                     \* GUI: analysis flag, hint, status line
    db_users,       \* database: the users row of each user id
    db_settings,    \* database: the user ids that have a user_settings row
    db_games,       \* database: the games rows, db_games[game_id]
    db_analyses,    \* database: the analyses rows, db_analyses[analysis_id]
    db_call,        \* database: the last call of ChessDatabase and what it returned
    db_returned,    \* database: per user, the calls made for the existing user that
                    \*           returned an id (a history of the calls, no table)
    is_engine_loaded,   \* ChessEngine: self.is_engine_loaded
    engine,         \* ChessEngine: the engine process of self.engine and its options
    engine_call,    \* ChessEngine: the last call and what it returned
    gui_kind,       \* GUI: the program that runs, chess_analyzer.py or the complete one
    gui_engine,     \* GUI: self.engine is a running engine
    analyze_button, \* GUI: state of the analyse button
    threads,        \* GUI: the analysis threads and the position of each
    after_queue,    \* GUI: the callbacks given to root.after, run by the main loop
    dialog          \* GUI: the last dialog shown

step3vars == <<folder_exists, cells, board, empty_count, white_count, black_count,
               fen_position, probe, wnext>>
step0vars == <<image_file, image, contours, idx, board_contour, max_area, pts, rect,
               warped, board_size, grid, stages, written>>
step4vars == <<results_file, s4_board, s4_loaded>>
guivars == <<gui_board, turn, selected_square, promotion_move, promotion_dialog,
             is_analyzing, best_move, status>>
dbvars == <<db_users, db_settings, db_games, db_analyses, db_call, db_returned>>
enginevars == <<is_engine_loaded, engine, engine_call>>
analysisvars == <<gui_kind, gui_engine, analyze_button, threads, after_queue, dialog>>
servicevars == <<dbvars, enginevars, analysisvars>>
\* what a call of the database, of the engine, of the analysing GUI leaves alone
dbframe == <<pc, row, col, step3vars, step0vars, step4vars, guivars, enginevars, analysisvars>>
engineframe == <<pc, row, col, step3vars, step0vars, step4vars, guivars, dbvars, analysisvars>>
analysisframe == <<pc, row, col, step3vars, step0vars, step4vars, dbvars, enginevars>>
othervars == <<step4vars, guivars, servicevars>>
vars == <<pc, row, col, step3vars, step0vars, othervars>>

(***************************************************************************)
(* Bounds of the model.                                                    *)
(***************************************************************************)
\* number of cell files whose content varies freely; the others hold a fixed background
MaxVaried == 3

\* range(8) of the loops, the 8x8 board
N == 8
Idx == 0 .. (N - 1)

(***************************************************************************)
(* Characters and string conversions.                                      *)
(***************************************************************************)
DigitChars == <<"1", "2", "3", "4", "5", "6", "7", "8", "9">>
LowerLetters == {"r", "n", "b", "q", "k", "p"}
UpperLetters == {"R", "N", "B", "Q", "K", "P"}

\* str.upper() / str.lower() on a one-character string
Upper(c) ==
    CASE c = "r" -> "R" [] c = "n" -> "N" [] c = "b" -> "B"
      [] c = "q" -> "Q" [] c = "k" -> "K" [] c = "p" -> "P"
      [] OTHER -> c

Lower(c) ==
    CASE c = "R" -> "r" [] c = "N" -> "n" [] c = "B" -> "b"
      [] c = "Q" -> "q" [] c = "K" -> "k" [] c = "P" -> "p"
      [] OTHER -> c

\* str(n) for 0 <= n <= 99, as a sequence of characters
Str(n) ==
    IF n = 0 THEN <<"0">>
    ELSE IF n < 10 THEN <<DigitChars[n]>>
    ELSE <<DigitChars[n \div 10]>> \o (IF n % 10 = 0 THEN <<"0">> ELSE <<DigitChars[n % 10]>>)

(***************************************************************************)
(* Cell images.  An image is described by the measurements the classifier  *)
(* takes from it (all of them integers: pixel counts and grey levels).     *)
(*   avg_color      mean grey level of the whole cell                      *)
(*   blur_lt80      pixels of the blurred cell below 80                    *)
(*   blur_gt180     pixels of the blurred cell above 180                   *)
(*   min_val,max_val  extreme grey levels of the blurred cell              *)
(*   center_avg     mean grey level of the central region                  *)
(*   gray_lt100     pixels below 100;  gray_gt150  pixels above 150        *)
(*   has_contour    findContours on the binarised cell found a contour     *)
(*   w, h           bounding box of the largest contour                    *)
(*   total          height * width                                         *)
(***************************************************************************)
Img(avg, lt80, gt180, mn, mx, cavg, lt100, gt150, hc, bw, bh) ==
    [avg_color |-> avg, blur_lt80 |-> lt80, blur_gt180 |-> gt180,
     min_val |-> mn, max_val |-> mx, center_avg |-> cavg,
     gray_lt100 |-> lt100, gray_gt150 |-> gt150,
     has_contour |-> hc, w |-> bw, h |-> bh, total |-> 100]

ImageNames == {"empty_light", "empty_dark", "white_rook_dark", "black_pawn_light",
               "unknown_light", "black_knight_dark", "white_queen_light"}

Image(name) ==
    CASE name = "empty_light"       -> Img(200,  0, 90, 190, 220, 200,  0, 100, FALSE, 0, 0)
      [] name = "empty_dark"        -> Img( 90,  0,  0,  80, 110,  90, 70,   0, FALSE, 0, 0)
      [] name = "white_rook_dark"   -> Img(125,  0, 40,  60, 250, 200, 30,  65, TRUE,  5, 8)
      [] name = "black_pawn_light"  -> Img(170, 18,  0,  20, 230,  80, 19,  75, TRUE,  4, 6)
      [] name = "unknown_light"     -> Img(150, 20,  0,  60, 210, 130, 30,  55, TRUE,  5, 5)
      [] name = "black_knight_dark" -> Img(100,  0,  0,  10, 150,  60, 55,  45, TRUE,  6, 6)
      [] name = "white_queen_light" -> Img(190,  5, 60,  70, 255, 230, 62,  30, TRUE,  7, 7)

\* what os.path.exists / cv2.imread find for one cell file
CellFiles == {"missing", "unreadable"} \cup ImageNames

(***************************************************************************)
(* The classifier functions.                                               *)
(***************************************************************************)
get_cell_color(cell_image) ==
    IF cell_image.avg_color > 127 THEN "light" ELSE "dark"

is_cell_empty_ratio_only(cell_image, cell_color) ==
    LET contrast_pixels == IF cell_color = "light" THEN cell_image.blur_lt80
                           ELSE cell_image.blur_gt180
    IN  contrast_pixels * 100 < 15 * cell_image.total

is_cell_empty_high_contrast(cell_image, cell_color) ==
    LET contrast_pixels == IF cell_color = "light" THEN cell_image.blur_lt80
                           ELSE cell_image.blur_gt180
        contrast == cell_image.max_val - cell_image.min_val
    IN  contrast_pixels * 100 < 15 * cell_image.total /\ contrast > 100

\* contrast_ratio < 0.15 and contrast < 100; the ratio compared without division
is_cell_empty(cell_image, cell_color) ==
    LET contrast_pixels == IF cell_color = "light" THEN cell_image.blur_lt80
                           ELSE cell_image.blur_gt180
        total_pixels == cell_image.total
        contrast == cell_image.max_val - cell_image.min_val
    IN  contrast_pixels * 100 < 15 * total_pixels /\ contrast < 100

get_piece_color_inclusive(cell_image, cell_color) ==
    LET avg_brightness == cell_image.center_avg
    IN  IF cell_color = "light"
        THEN IF avg_brightness >= 160 THEN "w"
             ELSE IF avg_brightness <= 100 THEN "b" ELSE "?"
        ELSE IF avg_brightness >= 180 THEN "w"
             ELSE IF avg_brightness <= 140 THEN "b" ELSE "?"

get_piece_color(cell_image, cell_color) ==
    LET avg_brightness == cell_image.center_avg
    IN  IF cell_color = "light"
        THEN IF avg_brightness > 160 THEN "w"
             ELSE IF avg_brightness < 100 THEN "b" ELSE "?"
        ELSE IF avg_brightness > 180 THEN "w"
             ELSE IF avg_brightness < 140 THEN "b" ELSE "?"

guess_piece_type_ascending(cell_image, piece_color, cell_color) ==
    LET filled_pixels == IF cell_color = "light" THEN cell_image.gray_lt100
                         ELSE cell_image.gray_gt150
        total_pixels == cell_image.total
        tall == cell_image.w > 0 /\ cell_image.h * 10 > 12 * cell_image.w
    IN  IF cell_image.has_contour
        THEN IF filled_pixels * 10 > 2 * total_pixels THEN "b"
             ELSE IF filled_pixels * 10 > 4 * total_pixels THEN "n"
             ELSE IF filled_pixels * 10 > 6 * total_pixels
             THEN IF tall THEN "r" ELSE "q"
             ELSE "p"
        ELSE "p"

\* fill_ratio > 0.6 etc. and h / w > 1.2 compared without division
guess_piece_type(cell_image, piece_color, cell_color) ==
    LET filled_pixels == IF cell_color = "light" THEN cell_image.gray_lt100
                         ELSE cell_image.gray_gt150
        total_pixels == cell_image.total
        tall == cell_image.w > 0 /\ cell_image.h * 10 > 12 * cell_image.w
    IN  IF cell_image.has_contour
        THEN IF filled_pixels * 10 > 6 * total_pixels
             THEN IF tall THEN "r" ELSE "q"
             ELSE IF filled_pixels * 10 > 4 * total_pixels THEN "n"
             ELSE IF filled_pixels * 10 > 2 * total_pixels THEN "b"
             ELSE "p"
        ELSE "p"

\* line 193: the label of a cell whose file is missing
missing_label_empty == "."
missing_label == "?"

\* lines 175-182: the label of an occupied cell
piece_code_default_white(piece_color, piece_type) ==
    IF piece_color = "b" THEN Lower(piece_type) ELSE Upper(piece_type)

piece_code_unknown_lower(piece_color, piece_type) ==
    IF piece_color = "w" THEN Upper(piece_type) ELSE Lower(piece_type)

piece_code(piece_color, piece_type) ==
    IF piece_color = "w" THEN Upper(piece_type)
    ELSE IF piece_color = "b" THEN Lower(piece_type)
    ELSE "?"

(***************************************************************************)
(* Step 3, lines 15-20 and 138-149: folder check, empty board, counters.   *)
(***************************************************************************)
Step3Start ==
    /\ pc = "start"
    /\ IF ~folder_exists
       THEN /\ pc' = "exit"
            /\ UNCHANGED <<board, row, col, empty_count, white_count, black_count>>
       ELSE /\ pc' = "loop"
            /\ board' = [r \in Idx |-> [c \in Idx |-> "."]]
            /\ row' = 0
            /\ col' = 0
            /\ empty_count' = 0
            /\ white_count' = 0
            /\ black_count' = 0
    /\ UNCHANGED <<folder_exists, cells, fen_position, step0vars, probe, wnext, othervars>>

(***************************************************************************)
(* Step 3, lines 152-193: one iteration of the cell analysis loop.         *)
(* cv2.imread returns None for a file it cannot decode, and cv2.cvtColor   *)
(* raises on None: the script ends with a traceback.                       *)
(***************************************************************************)
NextCell ==
    IF col < N - 1 THEN /\ col' = col + 1 /\ row' = row /\ pc' = pc
    ELSE IF row < N - 1 THEN /\ col' = 0 /\ row' = row + 1 /\ pc' = pc
    ELSE /\ pc' = "stats" /\ UNCHANGED <<row, col>>

\* line 158: cv2.imread of a cell file that can be decoded
imread(filename) ==
    IF filename = "probe1" THEN probe[1]
    ELSE IF filename = "probe2" THEN probe[2]
    ELSE Image(filename)

ClassifyCellAtLoopIndex(r, c) ==
    LET cell == imread(cells[r][c])
        cell_color == get_cell_color(cell)
        piece_color == get_piece_color(cell, cell_color)
    IN  /\ board' = [board EXCEPT ![row][col] =
                         IF cells[r][c] = "missing" THEN missing_label
                         ELSE IF is_cell_empty(cell, cell_color) THEN "."
                         ELSE piece_code(piece_color,
                                         guess_piece_type(cell, piece_color, cell_color))]
        /\ UNCHANGED <<empty_count, white_count, black_count>>

\* lines 154-193: the body of the loop for the cell (r, c), file missing or decodable
ClassifyCell(r, c) ==
    LET filename == cells[r][c]
    IN  IF filename = "missing"
        THEN /\ board' = [board EXCEPT ![r][c] = missing_label]
             /\ UNCHANGED <<empty_count, white_count, black_count>>
        ELSE LET cell == imread(filename)
                 cell_color == get_cell_color(cell)
             IN  IF is_cell_empty(cell, cell_color)
                 THEN /\ board' = [board EXCEPT ![r][c] = "."]
                      /\ empty_count' = empty_count + 1
                      /\ UNCHANGED <<white_count, black_count>>
                 ELSE LET piece_color == get_piece_color(cell, cell_color)
                          piece_type == guess_piece_type(cell, piece_color, cell_color)
                      IN  /\ board' = [board EXCEPT ![r][c] =
                                           piece_code(piece_color, piece_type)]
                          /\ white_count' = white_count + (IF piece_color = "w" THEN 1 ELSE 0)
                          /\ black_count' = black_count + (IF piece_color = "b" THEN 1 ELSE 0)
                          /\ UNCHANGED empty_count

AnalyzeCell ==
    /\ pc = "loop"
    /\ IF cells[row][col] = "unreadable"
       THEN /\ pc' = "crashed"
            /\ UNCHANGED <<board, row, col, empty_count, white_count, black_count>>
       ELSE /\ ClassifyCell(row, col)
            /\ NextCell
    /\ UNCHANGED <<folder_exists, cells, fen_position, step0vars, probe, wnext, othervars>>

(***************************************************************************)
(* Step 3, lines 229-250: the position string.                             *)
(***************************************************************************)
\* lines 240-242 and 245-246: flush the pending run of empty cells
FlushRunDropsDigit(fen_row, empty_count_in_row) == fen_row
FlushRunOnes(fen_row, empty_count_in_row) ==
    fen_row \o [k \in 1 .. empty_count_in_row |-> "1"]
FlushRun(fen_row, empty_count_in_row) ==
    IF empty_count_in_row > 0 THEN fen_row \o Str(empty_count_in_row) ELSE fen_row

RECURSIVE FenRowScan(_, _, _, _)
\* lines 235-246: the scan of one row from column c on
FenRowScan(brow, c, fen_row, empty_count_in_row) ==
    IF c = N THEN FlushRun(fen_row, empty_count_in_row)
    ELSE LET piece == brow[c]
         IN  IF piece = "."
             THEN FenRowScan(brow, c + 1, fen_row, empty_count_in_row + 1)
             ELSE FenRowScan(brow, c + 1,
                             FlushRun(fen_row, empty_count_in_row) \o <<piece>>, 0)

\* lines 231-248
fen_rows(b) == [r \in 1 .. N |-> FenRowScan(b[r - 1], 0, <<>>, 0)]

RECURSIVE Join(_, _)
\* line 250: '/'.join(rows), from row i on
Join(rows, i) ==
    IF i > Len(rows) THEN <<>>
    ELSE IF i = Len(rows) THEN rows[i]
    ELSE rows[i] \o <<"/">> \o Join(rows, i + 1)

AssembleFEN ==
    /\ pc = "stats"
    /\ fen_position' = Join(fen_rows(board), 1)
    /\ pc' = "done"
    /\ UNCHANGED <<folder_exists, cells, board, row, col,
                   empty_count, white_count, black_count, step0vars, probe, wnext, othervars>>

(***************************************************************************)
(* The inputs of step 3.                                                   *)
(***************************************************************************)
\* the cell files that vary, in the order in which the bound admits them
VariedOrder == << <<0, 0>>, <<3, 3>>, <<3, 4>>, <<7, 7>>, <<4, 0>>, <<0, 1>> >>
VariedCells == {VariedOrder[i] : i \in 1 .. MaxVaried}

\* the other cell files: black pieces on rows 0-1, white on rows 6-7, empty between
Background(r, c) ==
    LET light == (r + c) % 2 = 0
    IN  IF r <= 1 THEN (IF light THEN "black_pawn_light" ELSE "black_knight_dark")
        ELSE IF r >= 6 THEN (IF light THEN "white_queen_light" ELSE "white_rook_dark")
        ELSE (IF light THEN "empty_light" ELSE "empty_dark")

CellInputs ==
    {[r \in Idx |-> [c \in Idx |->
        IF <<r, c>> \in VariedCells THEN v[<<r, c>>] ELSE Background(r, c)]]
     : v \in [VariedCells -> CellFiles]}

NoBoard == <<>>
None == "None"
NoContour == 0
NoSquare == -1
NoMove == [from_square |-> -1, to_square |-> -1, promotion |-> "None"]
NoWorkers == <<>>
\* no cell file is a probe
NoProbe == <<>>

\* step 4 has not run
Step4Idle ==
    /\ results_file = [kind |-> "absent", text |-> <<>>]
    /\ s4_board = NoBoard
    /\ s4_loaded = FALSE

\* the GUI has not run
GuiIdle ==
    /\ gui_board = NoBoard
    /\ turn = "w"
    /\ selected_square = NoSquare
    /\ promotion_move = NoMove
    /\ promotion_dialog = FALSE
    /\ is_analyzing = FALSE
    /\ best_move = NoMove
    /\ status = ""

\* the user ids and names the calls of the database are made with
UserIds == {1, 2}
Names == {"a", "b"}

\* no users row for the id
NoRow == [present |-> FALSE, username |-> "", games_played |-> 0, analysis_count |-> 0]
NoCall == [op |-> "none", user_id |-> 0, injected |-> FALSE, returned |-> <<>>]

\* the database is new (init_database has created the empty tables); no call was made
DbIdle ==
    /\ db_users = [u \in UserIds |-> NoRow]
    /\ db_settings = {}
    /\ db_games = <<>>
    /\ db_analyses = <<>>
    /\ db_call = NoCall
    /\ db_returned = [u \in UserIds |-> [games |-> 0, analyses |-> 0]]

\* no engine process
NoEngine == [running |-> FALSE, skill |-> 0, threads |-> 0, hash |-> 0]
\* skill_level = None
NoSkill == -1
NoEngineCall == [op |-> "none", skill_level |-> NoSkill, returned |-> FALSE, used |-> NoEngine]

\* no ChessEngine object was made
EngineIdle ==
    /\ is_engine_loaded = FALSE
    /\ engine = NoEngine
    /\ engine_call = NoEngineCall

\* no analysing GUI runs
AnalysisIdle ==
    /\ gui_kind = "none"
    /\ gui_engine = FALSE
    /\ analyze_button = "normal"
    /\ threads = <<>>
    /\ after_queue = <<>>
    /\ dialog = "none"

ServicesIdle == DbIdle /\ EngineIdle /\ AnalysisIdle

OthersIdle == Step4Idle /\ GuiIdle /\ ServicesIdle

\* step 0 has not run
Step0Idle ==
    /\ image_file = "absent"
    /\ image = None
    /\ contours = <<>>
    /\ idx = 0
    /\ board_contour = NoContour
    /\ max_area = 0
    /\ pts = <<>>
    /\ rect = <<>>
    /\ warped = None
    /\ board_size = 0
    /\ grid = <<>>
    /\ stages = {}
    /\ written = {}

Init ==
    /\ pc = "start"
    /\ folder_exists \in BOOLEAN
    /\ cells \in IF folder_exists THEN CellInputs
                 ELSE {[r \in Idx |-> [c \in Idx |-> "missing"]]}
    /\ board = NoBoard
    /\ row = 0
    /\ col = 0
    /\ empty_count = 0
    /\ white_count = 0
    /\ black_count = 0
    /\ fen_position = <<>>
    /\ probe = NoProbe
    /\ wnext = NoWorkers
    /\ Step0Idle
    /\ OthersIdle

Next ==
    \/ Step3Start
    \/ AnalyzeCell
    \/ AssembleFEN

Spec == Init /\ [][Next]_vars

(***************************************************************************)
(* The position assembler alone, on board grids of every row shape.        *)
(* One row of the grid ranges over all rows of FenAlphabet, the others     *)
(* hold the labels of the background.                                      *)
(***************************************************************************)
FenAlphabet == {".", "k", "P", "?"}
FreeRows == {0, 7}

BackgroundLabel(r, c) ==
    LET cell == Image(Background(r, c))
        cell_color == get_cell_color(cell)
    IN  IF is_cell_empty(cell, cell_color) THEN "."
        ELSE piece_code(get_piece_color(cell, cell_color),
                        guess_piece_type(cell, get_piece_color(cell, cell_color), cell_color))

BackgroundBoard == [r \in Idx |-> [c \in Idx |-> BackgroundLabel(r, c)]]

\* the boards whose row fr, one of rows, is any row over FenAlphabet
FenBoards(rows) ==
    {[BackgroundBoard EXCEPT ![fr] = free] : fr \in rows, free \in [Idx -> FenAlphabet]}

CountIn(b, S) == Cardinality({rc \in Idx \X Idx : b[rc[1]][rc[2]] \in S})

NoCells == <<>>

InitFen ==
    /\ pc = "stats"
    /\ folder_exists = TRUE
    /\ cells = NoCells
    /\ board \in FenBoards(FreeRows)
    /\ row = N - 1
    /\ col = N - 1
    /\ empty_count = CountIn(board, {"."})
    /\ white_count = CountIn(board, UpperLetters)
    /\ black_count = CountIn(board, LowerLetters)
    /\ fen_position = <<>>
    /\ probe = NoProbe
    /\ wnext = NoWorkers
    /\ Step0Idle
    /\ OthersIdle

NextFen == AssembleFEN

SpecFen == InitFen /\ [][NextFen]_vars

(***************************************************************************)
(* The classifier on one cell, the last of the loop, whose measurements    *)
(* range over the neighbourhood of every threshold of the classifier.      *)
(* The other 63 cells hold the background and have been analysed.          *)
(***************************************************************************)
\* how far around a threshold the measurements range
Margin == 1
Around(t) == (t - Margin) .. (t + Margin)

\* height * width of the probe images
ProbeTotals == {100, 200}
\* bounding boxes of the largest contour: h / w = 1.2 and h / w = 1.4
ProbeBoxes == {<<5, 6>>, <<5, 7>>}

\* An image of the given shade: a light cell has pixels below 80 and none
\* above 180, a dark cell the reverse; the image has a contour exactly when
\* the binarised cell has a pixel set.
ProbeImg(shade, total, cp, spread, cavg, filled, box) ==
    LET light == shade = "light"
        lo == IF light THEN 50 ELSE 100
    IN  [avg_color |-> IF light THEN 128 ELSE 127,
         blur_lt80 |-> IF light THEN cp ELSE 0,
         blur_gt180 |-> IF light THEN 0 ELSE cp,
         min_val |-> lo, max_val |-> lo + spread,
         center_avg |-> cavg,
         gray_lt100 |-> IF light THEN filled ELSE total \div 2,
         gray_gt150 |-> IF light THEN total \div 2 ELSE filled,
         has_contour |-> filled > 0, w |-> box[1], h |-> box[2], total |-> total]

ProbeFills(total) ==
    Around((2 * total) \div 10) \cup Around((4 * total) \div 10)
        \cup Around((6 * total) \div 10)

Shades == {"light", "dark"}

ProbeImages(shades) ==
    UNION {
      {ProbeImg(shade, total, cp, spread, cavg, 0, <<0, 0>>)
         : cp \in Around((15 * total) \div 100), spread \in Around(100),
           cavg \in Around(100) \cup Around(140) \cup Around(160) \cup Around(180)}
      \cup
      {ProbeImg(shade, total, cp, spread, cavg, fb[1], fb[2])
         : cp \in Around((15 * total) \div 100), spread \in Around(100),
           cavg \in Around(100) \cup Around(140) \cup Around(160) \cup Around(180),
           fb \in ProbeFills(total) \X ProbeBoxes}
      : shade \in shades, total \in ProbeTotals}

BackgroundCells == [r \in Idx |-> [c \in Idx |-> Background(r, c)]]

\* the row-major order of the loop: (r, c) is the cell number r * 8 + c
CellNo(r, c) == r * N + c
Pending(b, k) ==
    [r \in Idx |-> [c \in Idx |-> IF CellNo(r, c) >= N * N - k THEN "?" ELSE b[r][c]]]

\* the state of the loop with its last k iterations to go, b the board so far
LoopTail(files, b, k) ==
    /\ pc = "loop"
    /\ folder_exists = TRUE
    /\ cells = files
    /\ board = b
    /\ row = (N * N - k) \div N
    /\ col = (N * N - k) % N
    /\ empty_count = CountIn(Pending(b, k), {"."})
    /\ white_count = CountIn(Pending(b, k), UpperLetters)
    /\ black_count = CountIn(Pending(b, k), LowerLetters)
    /\ fen_position = <<>>
    /\ wnext = NoWorkers
    /\ Step0Idle
    /\ OthersIdle

InitProbe ==
    /\ probe \in {<<p>> : p \in ProbeImages(Shades)}
    /\ LoopTail([BackgroundCells EXCEPT ![N - 1][N - 1] = "probe1"],
                [BackgroundBoard EXCEPT ![N - 1][N - 1] = "."], 1)

NextProbe ==
    \/ AnalyzeCell
    \/ AssembleFEN

SpecProbe == InitProbe /\ [][NextProbe]_vars

(***************************************************************************)
(* The classifier on two cells, the last two of the loop, whose images     *)
(* differ in the contrast spread only.                                     *)
(***************************************************************************)
ProbeSpreads == Around(100) \cup {85, 120}

SpreadImages(shades) ==
    UNION {
      {ProbeImg(shade, total, cp, spread, cavg, (7 * total) \div 10, <<5, 7>>)
         : cp \in Around((15 * total) \div 100), spread \in ProbeSpreads,
           cavg \in {90, 200}}
      : shade \in shades, total \in ProbeTotals}

WithSpread(p, spread) == [p EXCEPT !.max_val = p.min_val + spread]

InitSpread ==
    /\ probe \in {<<p, WithSpread(p, s2)>> : p \in SpreadImages(Shades), s2 \in ProbeSpreads}
    /\ LoopTail([BackgroundCells EXCEPT ![N - 1][N - 2] = "probe1",
                                        ![N - 1][N - 1] = "probe2"],
                [BackgroundBoard EXCEPT ![N - 1][N - 2] = ".", ![N - 1][N - 1] = "."], 2)

NextSpread ==
    \/ AnalyzeCell
    \/ AssembleFEN

SpecSpread == InitSpread /\ [][NextSpread]_vars

(***************************************************************************)
(* The cell analysis loop with its iterations handed to workers: worker w  *)
(* runs the loop body on the cells of its share, the cells whose number is *)
(* w modulo the number of workers, and the workers interleave freely.     *)
(* One iteration of the loop body is one step of a worker.                 *)
(***************************************************************************)
MaxWorkers == 2
Workers == 0 .. (MaxWorkers - 1)
ShareLen(w) == Cardinality({n \in 0 .. (N * N - 1) : n % MaxWorkers = w})
AllDone(done) == \A w \in Workers : done[w] = ShareLen(w)

WorkerStep(w) ==
    /\ pc = "workers"
    /\ wnext[w] < ShareLen(w)
    /\ LET n == w + wnext[w] * MaxWorkers
           r == n \div N
           c == n % N
       IN  IF cells[r][c] = "unreadable"
           THEN /\ pc' = "crashed"
                /\ UNCHANGED <<board, empty_count, white_count, black_count, wnext>>
           ELSE /\ ClassifyCell(r, c)
                /\ wnext' = [wnext EXCEPT ![w] = @ + 1]
                /\ pc' = IF AllDone(wnext') THEN "stats" ELSE pc
    /\ UNCHANGED <<row, col, folder_exists, cells, fen_position, probe, step0vars, othervars>>

\* the cell files the workers are run on
WorkerCells == {<<0, 0>>, <<0, 1>>}
WorkerFiles == {"missing", "unreadable", "empty_light", "white_rook_dark",
                "unknown_light", "black_pawn_light"}
WorkerInputs ==
    {[r \in Idx |-> [c \in Idx |->
        IF <<r, c>> \in WorkerCells THEN v[<<r, c>>] ELSE Background(r, c)]]
     : v \in [WorkerCells -> WorkerFiles]}

InitWorkers ==
    /\ pc = "workers"
    /\ folder_exists = TRUE
    /\ cells \in WorkerInputs
    /\ board = [r \in Idx |-> [c \in Idx |-> "."]]
    /\ row = 0
    /\ col = 0
    /\ empty_count = 0
    /\ white_count = 0
    /\ black_count = 0
    /\ fen_position = <<>>
    /\ probe = NoProbe
    /\ wnext = [w \in Workers |-> 0]
    /\ Step0Idle
    /\ OthersIdle

NextWorkers ==
    \/ \E w \in Workers : WorkerStep(w)
    \/ AssembleFEN

SpecWorkers == InitWorkers /\ [][NextWorkers]_vars

(***************************************************************************)
(* Step 0 (step0.py): load, edges, contours, board locator, rectifier,     *)
(* 8x8 grid, save.                                                         *)
(***************************************************************************)
\* bounds of the step 0 inputs
MaxContours == 3
MaxArea == 2
MaxCoord == 2
MaxBoardSize == 64

\* line 97
BOARD_SIZE == 800

VertexCounts == {3, 4, 5}
ContourSet == [area : 0 .. MaxArea, nverts : VertexCounts]
ContourLists == UNION {[1 .. n -> ContourSet] : n \in 0 .. MaxContours}

Points == (0 .. MaxCoord) \X (0 .. MaxCoord)
Corner == 0 .. 3
\* 4 distinct points, in any order
Quads == {q \in [Corner -> Points] : \A i \in Corner, j \in Corner : i # j => q[i] # q[j]}
\* the polygons the pipeline is run on: an upright square and a square standing on a corner
SampleQuads == {[i \in Corner |-> << <<0, 0>>, <<2, 0>>, <<2, 2>>, <<0, 2>> >>[i + 1]],
                [i \in Corner |-> << <<1, 0>>, <<2, 1>>, <<1, 2>>, <<0, 1>> >>[i + 1]]}

\* lines 18-27: imread, and exit() when it returned None
LoadImage ==
    /\ pc = "s0_load"
    /\ image' = IF image_file = "ok" THEN "image" ELSE None
    /\ stages' = stages \cup {"load"}
    /\ pc' = IF image' = None THEN "exit" ELSE "s0_edges"
    /\ UNCHANGED <<row, col, step3vars, othervars, image_file, contours, idx, board_contour, max_area,
                   pts, rect, warped, board_size, grid, written>>

\* lines 36-41: grey, blur, Canny
Preprocess ==
    /\ pc = "s0_edges"
    /\ stages' = stages \cup {"edges"}
    /\ pc' = "s0_find"
    /\ UNCHANGED <<row, col, step3vars, othervars, image_file, image, contours, idx, board_contour,
                   max_area, pts, rect, warped, board_size, grid, written>>

\* lines 47-52: findContours, board_contour = None, max_area = 0
FindContours ==
    /\ pc = "s0_find"
    /\ \E cs \in ContourLists : contours' = cs
    /\ board_contour' = NoContour
    /\ max_area' = 0
    /\ idx' = 1
    /\ stages' = stages \cup {"contours"}
    /\ pc' = "s0_loop"
    /\ UNCHANGED <<row, col, step3vars, othervars, image_file, image, pts, rect, warped, board_size,
                   grid, written>>

\* lines 54-62 with max_area updated for every larger contour
LocatorStepAnyShape ==
    /\ pc = "s0_loop"
    /\ idx <= Len(contours)
    /\ LET cnt == contours[idx]
           area == cnt.area
       IN  IF area > max_area
           THEN /\ board_contour' = IF cnt.nverts = 4 THEN idx ELSE board_contour
                /\ max_area' = area
           ELSE UNCHANGED <<board_contour, max_area>>
    /\ idx' = idx + 1
    /\ stages' = stages \cup {"locate"}
    /\ UNCHANGED <<pc, row, col, step3vars, othervars, image_file, image, contours, pts, rect, warped,
                   board_size, grid, written>>

\* lines 54-62 with area >= max_area
LocatorStepLastOfTie ==
    /\ pc = "s0_loop"
    /\ idx <= Len(contours)
    /\ LET cnt == contours[idx]
           area == cnt.area
       IN  IF area >= max_area /\ area > 0 /\ cnt.nverts = 4
           THEN /\ board_contour' = idx
                /\ max_area' = area
           ELSE UNCHANGED <<board_contour, max_area>>
    /\ idx' = idx + 1
    /\ stages' = stages \cup {"locate"}
    /\ UNCHANGED <<pc, row, col, step3vars, othervars, image_file, image, contours, pts, rect, warped,
                   board_size, grid, written>>

\* lines 54-62: one iteration of the contour loop
LocatorStep ==
    /\ pc = "s0_loop"
    /\ idx <= Len(contours)
    /\ LET cnt == contours[idx]
           area == cnt.area
       IN  IF area > max_area
           THEN IF cnt.nverts = 4
                THEN /\ board_contour' = idx
                     /\ max_area' = area
                ELSE UNCHANGED <<board_contour, max_area>>
           ELSE UNCHANGED <<board_contour, max_area>>
    /\ idx' = idx + 1
    /\ stages' = stages \cup {"locate"}
    /\ UNCHANGED <<pc, row, col, step3vars, othervars, image_file, image, contours, pts, rect, warped,
                   board_size, grid, written>>

\* lines 64-80 without the exit()
CheckBoardContourNoExit ==
    /\ pc = "s0_loop"
    /\ idx > Len(contours)
    /\ \E q \in SampleQuads : pts' = q
    /\ pc' = "s0_order"
    /\ UNCHANGED <<row, col, step3vars, othervars, image_file, image, contours, idx, board_contour,
                   max_area, rect, warped, board_size, grid, stages, written>>

\* lines 64-80: exit() when no board contour was found, else its 4 corners
CheckBoardContour ==
    /\ pc = "s0_loop"
    /\ idx > Len(contours)
    /\ IF board_contour = NoContour
       THEN /\ pc' = "exit"
            /\ pts' = pts
       ELSE /\ \E q \in SampleQuads : pts' = q
            /\ pc' = "s0_order"
    /\ UNCHANGED <<row, col, step3vars, othervars, image_file, image, contours, idx, board_contour,
                   max_area, rect, warped, board_size, grid, stages, written>>

\* np.argmin / np.argmax: the first index of the least / greatest value
ArgMin(f) == CHOOSE i \in DOMAIN f : /\ \A j \in DOMAIN f : f[i] <= f[j]
                                     /\ \A j \in DOMAIN f : j < i => f[j] > f[i]
ArgMax(f) == CHOOSE i \in DOMAIN f : /\ \A j \in DOMAIN f : f[i] >= f[j]
                                     /\ \A j \in DOMAIN f : j < i => f[j] < f[i]

\* int32 to float32 (rect has dtype float32): exact up to 2^24, every second integer
\* in the binade after it
Float32(v) == IF v <= 16777216 /\ v >= -16777216 THEN v ELSE (v \div 2) * 2

\* lines 82-93 with diff taken as x - y
order_points_diff_reversed(p) ==
    LET s == [i \in Corner |-> p[i][1] + p[i][2]]
        diff == [i \in Corner |-> p[i][1] - p[i][2]]
        pick(i) == <<Float32(p[i][1]), Float32(p[i][2])>>
    IN  [k \in Corner |-> CASE k = 0 -> pick(ArgMin(s))
                            [] k = 2 -> pick(ArgMax(s))
                            [] k = 1 -> pick(ArgMin(diff))
                            [] k = 3 -> pick(ArgMax(diff))]

\* lines 82-93: pts.sum(axis=1) is x + y, np.diff(pts, axis=1) is y - x
order_points(p) ==
    LET s == [i \in Corner |-> p[i][1] + p[i][2]]
        diff == [i \in Corner |-> p[i][2] - p[i][1]]
        pick(i) == <<Float32(p[i][1]), Float32(p[i][2])>>
    IN  [k \in Corner |-> CASE k = 0 -> pick(ArgMin(s))
                            [] k = 2 -> pick(ArgMax(s))
                            [] k = 1 -> pick(ArgMin(diff))
                            [] k = 3 -> pick(ArgMax(diff))]

\* line 95
OrderPointsStep ==
    /\ pc = "s0_order"
    /\ rect' = order_points(pts)
    /\ pc' = "s0_warp"
    /\ UNCHANGED <<row, col, step3vars, othervars, image_file, image, contours, idx, board_contour,
                   max_area, pts, warped, board_size, grid, stages, written>>

\* lines 99-110: getPerspectiveTransform, warpPerspective
Warp ==
    /\ pc = "s0_warp"
    /\ warped' = "warped"
    /\ stages' = stages \cup {"warp"}
    /\ pc' = "s0_grid"
    /\ UNCHANGED <<row, col, step3vars, othervars, image_file, image, contours, idx, board_contour,
                   max_area, pts, rect, board_size, grid, written>>

\* lines 121-124 with the row used for x1
GridRectRowForX(r, c, cell) ==
    [x1 |-> r * cell, y1 |-> r * cell, x2 |-> r * cell + cell, y2 |-> r * cell + cell]

\* lines 121-124: the rectangle of cell (row, col)
GridRect(r, c, cell) ==
    [x1 |-> c * cell, y1 |-> r * cell, x2 |-> c * cell + cell, y2 |-> r * cell + cell]

\* lines 116-129: the whole grid loop
DrawGrid ==
    /\ pc = "s0_grid"
    /\ LET cell == board_size \div 8
       IN  grid' = [r \in Idx |-> [c \in Idx |-> GridRect(r, c, cell)]]
    /\ row' = N - 1
    /\ col' = N - 1
    /\ stages' = stages \cup {"grid"}
    /\ pc' = "s0_save"
    /\ UNCHANGED <<step3vars, othervars, image_file, image, contours, idx, board_contour, max_area,
                   pts, rect, warped, board_size, written>>

\* lines 135-136
Save ==
    /\ pc = "s0_save"
    /\ written' = written \cup {"board_warped.jpg", "board_grid.jpg"}
    /\ stages' = stages \cup {"save"}
    /\ pc' = "done"
    /\ UNCHANGED <<row, col, step3vars, othervars, image_file, image, contours, idx, board_contour,
                   max_area, pts, rect, warped, board_size, grid>>

\* step 3 has not run
Step3Idle ==
    /\ folder_exists = FALSE
    /\ cells = NoCells
    /\ board = NoBoard
    /\ empty_count = 0
    /\ white_count = 0
    /\ black_count = 0
    /\ fen_position = <<>>
    /\ probe = NoProbe
    /\ wnext = NoWorkers

InitStep0 ==
    /\ pc = "s0_load"
    /\ row = 0
    /\ col = 0
    /\ Step3Idle
    /\ OthersIdle
    /\ image_file \in {"ok", "absent"}
    /\ image = None
    /\ contours = <<>>
    /\ idx = 0
    /\ board_contour = NoContour
    /\ max_area = 0
    /\ pts = <<>>
    /\ rect = <<>>
    /\ warped = None
    /\ board_size = BOARD_SIZE
    /\ grid = <<>>
    /\ stages = {}
    /\ written = {}

NextStep0 ==
    \/ LoadImage
    \/ Preprocess
    \/ FindContours
    \/ LocatorStep
    \/ CheckBoardContour
    \/ OrderPointsStep
    \/ Warp
    \/ DrawGrid
    \/ Save

SpecStep0 == InitStep0 /\ [][NextStep0]_vars

(***************************************************************************)
(* order_points alone, on every 4 distinct points of a small lattice in    *)
(* every order.                                                            *)
(***************************************************************************)
InitOrder ==
    /\ pc = "s0_order"
    /\ row = 0
    /\ col = 0
    /\ Step3Idle
    /\ OthersIdle
    /\ image_file = "ok"
    /\ image = "image"
    /\ contours = << [area |-> 1, nverts |-> 4] >>
    /\ idx = 2
    /\ board_contour = 1
    /\ max_area = 1
    /\ pts \in Quads
    /\ rect = <<>>
    /\ warped = None
    /\ board_size = BOARD_SIZE
    /\ grid = <<>>
    /\ stages = {"load", "edges", "contours", "locate"}
    /\ written = {}

NextOrder == OrderPointsStep

SpecOrder == InitOrder /\ [][NextOrder]_vars

(***************************************************************************)
(* The grid alone, for every board size up to MaxBoardSize.                *)
(***************************************************************************)
InitGrid ==
    /\ pc = "s0_grid"
    /\ row = 0
    /\ col = 0
    /\ Step3Idle
    /\ OthersIdle
    /\ image_file = "ok"
    /\ image = "image"
    /\ contours = << [area |-> 1, nverts |-> 4] >>
    /\ idx = 2
    /\ board_contour = 1
    /\ max_area = 1
    /\ pts \in SampleQuads
    /\ rect = order_points(pts)
    /\ warped = "warped"
    /\ board_size \in 8 .. MaxBoardSize
    /\ grid = <<>>
    /\ stages = {"load", "edges", "contours", "locate", "warp"}
    /\ written = {}

NextGrid == DrawGrid

SpecGrid == InitGrid /\ [][NextGrid]_vars

(***************************************************************************)
(* Re-parsing a position string: split on '/', expand each digit into that *)
(* many Empty cells, one cell per other character.                         *)
(***************************************************************************)
IsDigit(c) == c = "0" \/ \E d \in 1 .. 9 : DigitChars[d] = c
DigitValue(c) == IF c = "0" THEN 0 ELSE CHOOSE d \in 1 .. 9 : DigitChars[d] = c

RECURSIVE SplitSlash(_, _, _, _)
\* the fields of s between '/' characters; cur is the field being read
SplitSlash(s, i, cur, acc) ==
    IF i > Len(s) THEN Append(acc, cur)
    ELSE IF s[i] = "/" THEN SplitSlash(s, i + 1, <<>>, Append(acc, cur))
    ELSE SplitSlash(s, i + 1, Append(cur, s[i]), acc)

RECURSIVE ExpandField(_, _)
ExpandField(f, i) ==
    IF i > Len(f) THEN <<>>
    ELSE (IF IsDigit(f[i]) THEN [k \in 1 .. DigitValue(f[i]) |-> "."] ELSE <<f[i]>>)
         \o ExpandField(f, i + 1)

ParsePosition(s) ==
    LET fields == SplitSlash(s, 1, <<>>, <<>>)
    IN  [k \in 1 .. Len(fields) |-> ExpandField(fields[k], 1)]

\* the board grid as 8 sequences of 8 labels, top row first
BoardRows(b) == [r \in 1 .. N |-> [c \in 1 .. N |-> b[r - 1][c - 1]]]

LoopDone == pc \in {"stats", "done"}

(***************************************************************************)
(* Step 4 (step4_pro_analyzer.py): load_position with the Step-3 source.   *)
(* step3_results.txt is absent, or holds the position in a line "FEN: ..." *)
(* as step 3 writes it, or holds the position in a line of its own.        *)
(***************************************************************************)
\* chess.Board(): the starting position, top row first
StartingRows ==
    << <<"r", "n", "b", "q", "k", "b", "n", "r">>,
       [c \in 1 .. N |-> "p"],
       [c \in 1 .. N |-> "."], [c \in 1 .. N |-> "."],
       [c \in 1 .. N |-> "."], [c \in 1 .. N |-> "."],
       [c \in 1 .. N |-> "P"],
       <<"R", "N", "B", "Q", "K", "B", "N", "R">> >>

RECURSIVE FieldValid(_, _, _, _)
\* chess.Board(fen), one row of the board part: digits 1-8, never two in a
\* row, and piece letters; the row must add up to 8 squares
FieldValid(f, i, field_sum, previous_was_digit) ==
    IF i > Len(f) THEN field_sum = 8
    ELSE IF IsDigit(f[i]) /\ DigitValue(f[i]) \in 1 .. 8
         THEN ~previous_was_digit
              /\ FieldValid(f, i + 1, field_sum + DigitValue(f[i]), TRUE)
    ELSE IF f[i] \in UpperLetters \cup LowerLetters
         THEN FieldValid(f, i + 1, field_sum + 1, FALSE)
    ELSE FALSE

\* chess.Board(fen) raises ValueError
BoardRaises(fen) ==
    LET fields == SplitSlash(fen, 1, <<>>, <<>>)
    IN  Len(fields) # 8 \/ \E k \in 1 .. Len(fields) : ~FieldValid(fields[k], 1, 0, FALSE)

HasSlash(line) == \E i \in 1 .. Len(line) : line[i] = "/"

\* lines 161-192; the result is <<return value, self.board>>.  An exception
\* of chess.Board in the first loop leaves the try block (lines 187-188).
load_fen_from_step3 ==
    IF results_file.kind = "absent" THEN <<FALSE, s4_board>>
    ELSE IF results_file.kind = "fen_line"
         THEN IF BoardRaises(results_file.text) THEN <<FALSE, s4_board>>
              ELSE <<TRUE, ParsePosition(results_file.text)>>
    ELSE IF HasSlash(results_file.text)
            /\ Len(SplitSlash(results_file.text, 1, <<>>, <<>>)) = 8
            /\ ~BoardRaises(results_file.text)
         THEN <<TRUE, ParsePosition(results_file.text)>>
    ELSE <<FALSE, s4_board>>

\* lines 85-105 and 147-153, choice "2"
LoadPosition ==
    /\ pc = "s4_menu"
    /\ LET loaded == load_fen_from_step3
       IN  /\ s4_loaded' = loaded[1]
           /\ s4_board' = IF loaded[1] THEN loaded[2] ELSE StartingRows
    /\ pc' = "s4_position"
    /\ UNCHANGED <<row, col, step3vars, step0vars, results_file, guivars, servicevars>>

\* the position lines the file may hold: the string of a board of step 3
\* with some cells of its fourth row replaced
S4Alphabet == {".", "k", "K", "?"}
S4Cells == {2, 3, 5}
S4Texts(cols) ==
    {Join(fen_rows([BackgroundBoard EXCEPT ![3] =
                       [c \in Idx |-> IF c \in cols THEN v[c] ELSE @[c]]]), 1)
       : v \in [cols -> S4Alphabet]}

InitStep4 ==
    /\ pc = "s4_menu"
    /\ row = 0
    /\ col = 0
    /\ Step3Idle
    /\ Step0Idle
    /\ results_file \in {[kind |-> "absent", text |-> <<>>]}
                         \cup [kind : {"fen_line", "bare_line"}, text : S4Texts(S4Cells)]
    /\ s4_board = NoBoard
    /\ s4_loaded = FALSE
    /\ GuiIdle
    /\ ServicesIdle

NextStep4 == LoadPosition

SpecStep4 == InitStep4 /\ [][NextStep4]_vars

C2_RoundTrip ==
    (pc = "done" /\ CountIn(board, {"?"}) = 0) =>
        ParsePosition(fen_position) = BoardRows(board)

C2_Witness ==
    /\ pc = "done"
    /\ CountIn(board, {"?"}) = 0
    /\ board[0][0] = "." /\ board[0][1] = "k" /\ board[0][2] = "."
    /\ board[0][3] = "." /\ board[0][4] = "P" /\ board[0][5] = "k"
    /\ board[0][6] = "." /\ board[0][7] = "."
    /\ fen_position[1] = "1" /\ fen_position[3] = "2"
    /\ ParsePosition(fen_position) = BoardRows(board)

(***************************************************************************)
(* C3: after the classification loop the board grid holds a label at each  *)
(* of the 64 positions, and a cell whose file is missing holds '?'.        *)
(***************************************************************************)
Labels == {".", "?"} \cup UpperLetters \cup LowerLetters

C3_AllCellsLabelled ==
    LoopDone =>
        /\ DOMAIN board = Idx
        /\ \A r \in Idx :
              /\ DOMAIN board[r] = Idx
              /\ \A c \in Idx :
                    /\ board[r][c] \in Labels
                    /\ cells[r][c] = "missing" => board[r][c] = "?"

C3_Witness ==
    /\ pc = "stats"
    /\ cells[0][0] = "missing" /\ board[0][0] = "?"
    /\ cells[3][4] = "missing" /\ board[3][4] = "?"
    /\ cells[3][3] = "empty_light" /\ board[3][3] = "."

(***************************************************************************)
(* C4: an occupied cell of unknown piece colour is stored as '?' and       *)
(* appears as '?' in the position string; it is never stored or emitted as *)
(* a piece letter and is counted neither as white nor as black.            *)
(***************************************************************************)
Readable(r, c) == cells[r][c] \in ImageNames
Occupied(r, c) ==
    Readable(r, c) /\ ~is_cell_empty(Image(cells[r][c]), get_cell_color(Image(cells[r][c])))
ColourOf(r, c) == get_piece_color(Image(cells[r][c]), get_cell_color(Image(cells[r][c])))
CellsOfColour(k) ==
    Cardinality({rc \in Idx \X Idx : Occupied(rc[1], rc[2]) /\ ColourOf(rc[1], rc[2]) = k})

C4_UnknownColourKept ==
    /\ LoopDone =>
          /\ \A r \in Idx, c \in Idx :
                (Occupied(r, c) /\ ColourOf(r, c) = "?") => board[r][c] = "?"
          /\ white_count = CellsOfColour("w")
          /\ black_count = CellsOfColour("b")
    /\ pc = "done" =>
          \A r \in Idx, c \in Idx :
              (Occupied(r, c) /\ ColourOf(r, c) = "?") =>
                  ParsePosition(fen_position)[r + 1][c + 1] = "?"

C4_Witness ==
    /\ pc = "done"
    /\ cells[3][3] = "unknown_light"
    /\ cells[3][4] = "white_rook_dark"
    /\ board[3][3] = "?"
    /\ ParsePosition(fen_position)[4] = <<".", ".", ".", "?", "R", ".", ".", ".">>

(***************************************************************************)
(* C5: order_points gives the same assignment for every permutation of the *)
(* same 4 distinct points.                                                 *)
(***************************************************************************)
Perms == {p \in [Corner -> Corner] : \A i \in Corner, j \in Corner : i # j => p[i] # p[j]}

C5_PermutationInvariant ==
    pc = "s0_warp" =>
        \A p \in Perms : order_points([i \in Corner |-> pts[p[i]]]) = rect

(***************************************************************************)
(* C6 (as stated): top-left has the minimum x+y, bottom-right the maximum  *)
(* x+y, top-right the minimum x-y and bottom-left the maximum x-y.         *)
(***************************************************************************)
SumOf(q) == q[1] + q[2]
XMinusY(q) == q[1] - q[2]
YMinusX(q) == q[2] - q[1]

C6_AsStated ==
    pc = "s0_warp" =>
        /\ \A i \in Corner : SumOf(rect[0]) <= SumOf(pts[i])
        /\ \A i \in Corner : SumOf(rect[2]) >= SumOf(pts[i])
        /\ \A i \in Corner : XMinusY(rect[1]) <= XMinusY(pts[i])
        /\ \A i \in Corner : XMinusY(rect[3]) >= XMinusY(pts[i])

(***************************************************************************)
(* C6 (amended): top-left is a point with the minimum x+y, bottom-right a  *)
(* point with the maximum x+y, top-right a point with the minimum y-x and  *)
(* bottom-left a point with the maximum y-x; of several points with the    *)
(* same extreme value the first in input order is taken.                   *)
(***************************************************************************)
\* q is the first of pts with the least / greatest value of v (v[i] is the value of pts[i])
FirstWithLeast(q, v) ==
    \E i \in Corner :
        /\ pts[i] = q
        /\ \A j \in Corner : v[i] <= v[j]
        /\ \A j \in Corner : j < i => v[j] > v[i]

FirstWithGreatest(q, v) ==
    \E i \in Corner :
        /\ pts[i] = q
        /\ \A j \in Corner : v[i] >= v[j]
        /\ \A j \in Corner : j < i => v[j] < v[i]

C6_ExtremesOfSumAndDiff ==
    pc = "s0_warp" =>
        /\ FirstWithLeast(rect[0], [i \in Corner |-> SumOf(pts[i])])
        /\ FirstWithGreatest(rect[2], [i \in Corner |-> SumOf(pts[i])])
        /\ FirstWithLeast(rect[1], [i \in Corner |-> YMinusX(pts[i])])
        /\ FirstWithGreatest(rect[3], [i \in Corner |-> YMinusX(pts[i])])

C6_Witness ==
    /\ pc = "s0_warp"
    /\ pts = [i \in Corner |-> << <<2, 2>>, <<0, 2>>, <<2, 0>>, <<0, 0>> >>[i + 1]]
    /\ rect = [i \in Corner |-> << <<0, 0>>, <<2, 0>>, <<2, 2>>, <<0, 2>> >>[i + 1]]

(***************************************************************************)
(* C7: the board locator ends with board_contour a contour with a 4-vertex *)
(* approximation whose area is the maximum among the 4-vertex contours of  *)
(* area > 0; a contour with another vertex count is never selected and     *)
(* never keeps a smaller 4-vertex contour from being selected.             *)
(***************************************************************************)
LocatorDone ==
    \/ pc = "s0_loop" /\ idx > Len(contours)
    \/ pc \in {"s0_order", "s0_warp", "s0_grid", "s0_save", "done"}
    \/ pc = "exit" /\ "contours" \in stages

QuadContours == {i \in 1 .. Len(contours) : contours[i].nverts = 4 /\ contours[i].area > 0}

C7_LargestQuadSelected ==
    LocatorDone =>
        /\ board_contour # NoContour => board_contour \in QuadContours
        /\ QuadContours # {} =>
              /\ board_contour \in QuadContours
              /\ \A j \in QuadContours : contours[j].area <= contours[board_contour].area
              /\ max_area = contours[board_contour].area

C7_Witness ==
    /\ LocatorDone
    /\ Len(contours) = 3
    /\ contours[1] = [area |-> 2, nverts |-> 5]
    /\ contours[2] = [area |-> 1, nverts |-> 4]
    /\ contours[3] = [area |-> 2, nverts |-> 3]
    /\ board_contour = 2

(***************************************************************************)
(* C8 (as stated): the board locator reports NotFound (board_contour stays *)
(* None and the pipeline stops) when no contour has a 4-vertex             *)
(* approximation, and also when two 4-vertex contours tie for the largest  *)
(* area.                                                                   *)
(***************************************************************************)
NoQuad == \A i \in 1 .. Len(contours) : contours[i].nverts # 4
LargestQuads ==
    {i \in 1 .. Len(contours) :
        /\ contours[i].nverts = 4
        /\ \A j \in 1 .. Len(contours) :
              contours[j].nverts = 4 => contours[j].area <= contours[i].area}
TieForLargest == Cardinality(LargestQuads) >= 2
AfterCheck == LocatorDone /\ pc # "s0_loop"

C8_TieIsNotFound ==
    (LocatorDone /\ (NoQuad \/ TieForLargest)) =>
        /\ board_contour = NoContour
        /\ AfterCheck => pc = "exit"

(***************************************************************************)
(* C8 (amended): the board locator reports NotFound (board_contour stays   *)
(* None and the pipeline stops) when no contour has a 4-vertex             *)
(* approximation, and exactly when none of area > 0 has one; when two      *)
(* 4-vertex contours tie for the largest area (> 0) it does not report     *)
(* NotFound: the first of them in list order is selected.                  *)
(***************************************************************************)
C8_NotFoundIffNoQuad ==
    LocatorDone =>
        /\ NoQuad => board_contour = NoContour
        /\ board_contour = NoContour <=> QuadContours = {}
        /\ (AfterCheck /\ board_contour = NoContour) => pc = "exit"
        /\ (AfterCheck /\ board_contour # NoContour) => pc # "exit"
        /\ (TieForLargest /\ QuadContours # {}) =>
              /\ board_contour \in LargestQuads
              /\ \A j \in LargestQuads : board_contour <= j

C8_Witness ==
    /\ pc = "s0_order"
    /\ Len(contours) = 3
    /\ contours[1] = [area |-> 1, nverts |-> 4]
    /\ contours[2] = [area |-> 2, nverts |-> 4]
    /\ contours[3] = [area |-> 2, nverts |-> 4]
    /\ board_contour = 2

(***************************************************************************)
(* C9: a stage of step 0 runs only after every earlier stage succeeded: if *)
(* the image cannot be loaded, nothing after the load runs and no file is  *)
(* written; if no board contour is found there is no warp, no grid and no  *)
(* write of board_warped.jpg or board_grid.jpg.                            *)
(***************************************************************************)
C9_StagesInOrder ==
    /\ image = None =>
          /\ stages \subseteq {"load"}
          /\ warped = None /\ grid = <<>> /\ written = {}
    /\ board_contour = NoContour =>
          /\ stages \cap {"warp", "grid", "save"} = {}
          /\ rect = <<>> /\ warped = None /\ grid = <<>> /\ written = {}
    /\ "edges" \in stages => "load" \in stages
    /\ "contours" \in stages => "edges" \in stages
    /\ "locate" \in stages => "contours" \in stages
    /\ "warp" \in stages => "contours" \in stages /\ rect # <<>>
    /\ "grid" \in stages => "warp" \in stages
    /\ "save" \in stages => "grid" \in stages
    /\ written # {} => "save" \in stages

C9_Witness ==
    /\ pc = "exit"
    /\ image = "image"
    /\ Len(contours) = 2
    /\ contours[1].nverts = 5 /\ contours[1].area = 2
    /\ contours[2].nverts = 4 /\ contours[2].area = 0
    /\ board_contour = NoContour
    /\ stages = {"load", "edges", "contours", "locate"}
    /\ written = {}

(***************************************************************************)
(* C10: for a board size S divisible by 8 the grid with cell = S // 8      *)
(* consists of 64 cells of size S/8 x S/8 whose union is the whole S x S   *)
(* board and no two of which overlap.                                      *)
(***************************************************************************)
InCell(g, x, y) == g.x1 <= x /\ x < g.x2 /\ g.y1 <= y /\ y < g.y2
CellsAt(x, y) == {rc \in Idx \X Idx : InCell(grid[rc[1]][rc[2]], x, y)}

C10_GridPartition ==
    (pc = "s0_save" /\ board_size % 8 = 0) =>
        /\ DOMAIN grid = Idx
        /\ \A r \in Idx : DOMAIN grid[r] = Idx
        /\ Cardinality(Idx \X Idx) = 64
        /\ \A r \in Idx, c \in Idx :
              /\ grid[r][c].x1 = c * (board_size \div 8)
              /\ grid[r][c].y1 = r * (board_size \div 8)
              /\ (grid[r][c].x2 - grid[r][c].x1) * 8 = board_size
              /\ (grid[r][c].y2 - grid[r][c].y1) * 8 = board_size
              /\ grid[r][c].x2 <= board_size /\ grid[r][c].y2 <= board_size
        /\ \A x \in 0 .. board_size - 1, y \in 0 .. board_size - 1 :
              Cardinality(CellsAt(x, y)) = 1

C10_Witness ==
    /\ pc = "s0_save"
    /\ board_size = 16
    /\ grid[1][1] = [x1 |-> 2, y1 |-> 2, x2 |-> 4, y2 |-> 4]
    /\ grid[7][7] = [x1 |-> 14, y1 |-> 14, x2 |-> 16, y2 |-> 16]
    /\ CellsAt(15, 0) = {<<0, 7>>}

(***************************************************************************)
(* GUI v2.2 (chess_analyzer.py): clicks on the board.  The positions hold  *)
(* kings and pawns, no pawn stands on its initial rank, and the clicks     *)
(* fall on the squares of ClickSquares.  A square is file + 8 * rank.      *)
(***************************************************************************)
Squares == 0 .. (N * N - 1)
square_file(sq) == sq % N
square_rank(sq) == sq \div N
Abs(x) == IF x < 0 THEN 0 - x ELSE x
Move(from, to, promo) == [from_square |-> from, to_square |-> to, promotion |-> promo]
PieceColor(piece) == IF piece \in UpperLetters THEN "w" ELSE "b"
Opponent(t) == IF t = "w" THEN "b" ELSE "w"
LastRank(t) == IF t = "w" THEN N - 1 ELSE 0
Forward(t) == IF t = "w" THEN N ELSE 0 - N
PromotionPieces == {"q", "r", "b", "n"}

\* the piece on from attacks the square to (kings and pawns)
Attacks(b, from, to) ==
    LET df == Abs(square_file(to) - square_file(from))
        dr == square_rank(to) - square_rank(from)
    IN  IF Lower(b[from]) = "k" THEN from # to /\ df <= 1 /\ Abs(dr) <= 1
        ELSE IF b[from] = "P" THEN df = 1 /\ dr = 1
        ELSE IF b[from] = "p" THEN df = 1 /\ dr = 0 - 1
        ELSE FALSE

\* Board.is_pseudo_legal: a pawn reaches the last rank by a promotion move only
is_pseudo_legal(b, t, move) ==
    LET from == move.from_square
        to == move.to_square
    IN  /\ b[from] # "." /\ PieceColor(b[from]) = t
        /\ b[to] = "." \/ PieceColor(b[to]) # t
        /\ IF Lower(b[from]) = "p"
           THEN /\ \/ to = from + Forward(t) /\ b[to] = "."
                   \/ Attacks(b, from, to) /\ b[to] # "."
                /\ (move.promotion # None) <=> (square_rank(to) = LastRank(t))
                /\ move.promotion \in PromotionPieces \cup {None}
           ELSE /\ move.promotion = None
                /\ Attacks(b, from, to)

\* Board.push on the squares
push(b, t, move) ==
    [b EXCEPT ![move.from_square] = ".",
              ![move.to_square] =
                  IF move.promotion = None THEN b[move.from_square]
                  ELSE IF t = "w" THEN Upper(move.promotion) ELSE move.promotion]

\* the king of side t is attacked
is_check(b, t) ==
    \E k \in Squares, sq \in Squares :
        /\ b[k] = (IF t = "w" THEN "K" ELSE "k")
        /\ b[sq] # "." /\ PieceColor(b[sq]) # t
        /\ Attacks(b, sq, k)

\* move in self.board.legal_moves
is_legal(b, t, move) ==
    /\ is_pseudo_legal(b, t, move)
    /\ ~is_check(push(b, t, move), t)

\* lines 468-483
check_promotion(move) ==
    LET piece == gui_board[move.from_square]
    IN  IF Lower(piece) # "p" THEN FALSE
        ELSE IF piece = "P" /\ square_rank(move.to_square) = 7 THEN TRUE
        ELSE IF piece = "p" /\ square_rank(move.to_square) = 0 THEN TRUE
        ELSE FALSE

\* lines 485-530; board.san(move) after the push raises, the handler of
\* line 527 sets the status
on_board_click(square) ==
    /\ pc = "gui"
    /\ IF is_analyzing
       THEN UNCHANGED guivars
       ELSE IF selected_square = NoSquare
       THEN /\ selected_square' =
                 IF gui_board[square] # "." /\ PieceColor(gui_board[square]) = turn
                 THEN square ELSE selected_square
            /\ UNCHANGED <<gui_board, turn, promotion_move, promotion_dialog,
                           is_analyzing, best_move, status>>
       ELSE LET move == Move(selected_square, square, None)
            IN  IF is_legal(gui_board, turn, move)
                THEN IF check_promotion(move)
                     THEN /\ promotion_move' = move
                          /\ promotion_dialog' = TRUE
                          /\ UNCHANGED <<gui_board, turn, selected_square,
                                         is_analyzing, best_move, status>>
                     ELSE /\ gui_board' = push(gui_board, turn, move)
                          /\ turn' = Opponent(turn)
                          /\ selected_square' = NoSquare
                          /\ best_move' = NoMove
                          /\ status' = "error"
                          /\ UNCHANGED <<promotion_move, promotion_dialog, is_analyzing>>
                ELSE /\ selected_square' = NoSquare
                     /\ status' = "impossible move"
                     /\ UNCHANGED <<gui_board, turn, promotion_move, promotion_dialog,
                                    is_analyzing, best_move>>
    /\ UNCHANGED <<pc, row, col, step3vars, step0vars, step4vars, servicevars>>

\* a1 = 0, h1 = 7, a8 = 56
ClickSquares == {48, 56, 15, 7, 4, 3, 12, 11, 60, 59, 52, 51}

\* 4k3/P7/8/8/8/8/7p/4K3
PromotionPosition ==
    [sq \in Squares |->
        IF sq = 4 THEN "K" ELSE IF sq = 60 THEN "k"
        ELSE IF sq = 48 THEN "P" ELSE IF sq = 15 THEN "p" ELSE "."]

\* the window after load_fen_dialog (lines 1063-1076) of such a position,
\* with or without an analysis running
InitGui ==
    /\ pc = "gui"
    /\ row = 0
    /\ col = 0
    /\ Step3Idle
    /\ Step0Idle
    /\ Step4Idle
    /\ ServicesIdle
    /\ gui_board = PromotionPosition
    /\ turn \in {"w", "b"}
    /\ selected_square = NoSquare
    /\ promotion_move = NoMove
    /\ promotion_dialog = FALSE
    /\ is_analyzing \in BOOLEAN
    /\ best_move = NoMove
    /\ status = "position loaded"

NextGui == \E square \in ClickSquares : on_board_click(square)

SpecGui == InitGui /\ [][NextGui]_vars

(***************************************************************************)
(* Measurements of a probe image, read off the image record.               *)
(***************************************************************************)
IsLight(p) == p.avg_color > 127
ContrastPixels(p) == IF IsLight(p) THEN p.blur_lt80 ELSE p.blur_gt180
SpreadOf(p) == p.max_val - p.min_val
FilledPixels(p) == IF IsLight(p) THEN p.gray_lt100 ELSE p.gray_gt150
\* the label of the last cell and of the cell before it
LastLabel == board[N - 1][N - 1]
LastButOneLabel == board[N - 1][N - 2]
ProbeDone == LoopDone /\ Len(probe) = 1
SpreadDone == LoopDone /\ Len(probe) = 2

(***************************************************************************)
(* C11: a cell is reported Empty if and only if its contrast pixels (below *)
(* 80 on a light cell, above 180 on a dark cell) are less than 0.15 of all *)
(* pixels and max - min grey value is less than 100; otherwise occupied.   *)
(***************************************************************************)
C11_EmptyIff ==
    ProbeDone =>
        (LastLabel = "." <=>
            (ContrastPixels(probe[1]) * 100 < 15 * probe[1].total
             /\ SpreadOf(probe[1]) < 100))

\* the ratio is exactly 0.15 and the spread is low: occupied
C11_Witness ==
    /\ ProbeDone
    /\ ContrastPixels(probe[1]) * 100 = 15 * probe[1].total
    /\ SpreadOf(probe[1]) = 99
    /\ ~IsLight(probe[1])
    /\ LastLabel # "."
    /\ empty_count = CountIn(board, {"."})

(***************************************************************************)
(* C12: for a fixed shade and contrast-pixel ratio occupancy is monotonic  *)
(* in the contrast spread: occupied at spread s1 implies occupied at every *)
(* s2 >= s1, and a cell Empty at a spread below 100 is occupied at every   *)
(* spread of 100 or more.                                                  *)
(***************************************************************************)
C12_MonotonicInSpread ==
    (SpreadDone /\ probe[2] = WithSpread(probe[1], SpreadOf(probe[2]))) =>
        /\ (SpreadOf(probe[2]) >= SpreadOf(probe[1]) /\ LastButOneLabel # ".")
              => LastLabel # "."
        /\ (LastButOneLabel = "." /\ SpreadOf(probe[1]) < 100 /\ SpreadOf(probe[2]) >= 100)
              => LastLabel # "."

C12_Witness ==
    /\ SpreadDone
    /\ SpreadOf(probe[1]) = 99
    /\ SpreadOf(probe[2]) = 100
    /\ LastButOneLabel = "."
    /\ LastLabel # "."

(***************************************************************************)
(* C13: the piece colour is White iff the mean brightness b of the central *)
(* region is above 160 on a light cell, 180 on a dark cell; Black iff b is *)
(* below 100 on a light cell, 140 on a dark cell; Unknown for every b in   *)
(* between, the thresholds included.                                       *)
(***************************************************************************)
HighThreshold(p) == IF IsLight(p) THEN 160 ELSE 180
LowThreshold(p) == IF IsLight(p) THEN 100 ELSE 140

C13_ColourThresholds ==
    (ProbeDone /\ LastLabel # ".") =>
        /\ LastLabel \in UpperLetters <=> probe[1].center_avg > HighThreshold(probe[1])
        /\ LastLabel \in LowerLetters <=> probe[1].center_avg < LowThreshold(probe[1])
        /\ LastLabel = "?" <=>
              /\ probe[1].center_avg >= LowThreshold(probe[1])
              /\ probe[1].center_avg <= HighThreshold(probe[1])
        /\ white_count = CountIn(board, UpperLetters)
        /\ black_count = CountIn(board, LowerLetters)

\* brightness equal to the high threshold of a dark cell: Unknown
C13_Witness ==
    /\ ProbeDone
    /\ ~IsLight(probe[1])
    /\ probe[1].center_avg = 180
    /\ LastLabel = "?"

(***************************************************************************)
(* C14: the piece type follows the table fill > 0.6 and h/w > 1.2: Rook;   *)
(* fill > 0.6: Queen; fill > 0.4: Knight; fill > 0.2: Bishop; otherwise,   *)
(* or without a contour, Pawn.  No label of the board and no character of  *)
(* the position string is 'K' or 'k'.                                      *)
(***************************************************************************)
TypeByTable(p) ==
    IF ~p.has_contour THEN "p"
    ELSE IF FilledPixels(p) * 10 > 6 * p.total /\ p.h * 10 > 12 * p.w THEN "r"
    ELSE IF FilledPixels(p) * 10 > 6 * p.total THEN "q"
    ELSE IF FilledPixels(p) * 10 > 4 * p.total THEN "n"
    ELSE IF FilledPixels(p) * 10 > 2 * p.total THEN "b"
    ELSE "p"

C14_TypeTable ==
    /\ (ProbeDone /\ LastLabel \in UpperLetters \cup LowerLetters)
          => Lower(LastLabel) = TypeByTable(probe[1])
    /\ \A r \in DOMAIN board : \A c \in DOMAIN board[r] : board[r][c] \notin {"K", "k"}
    /\ \A i \in 1 .. Len(fen_position) : fen_position[i] \notin {"K", "k"}

\* fill ratio exactly 0.6 is a Knight, and the string carries its letter
C14_Witness ==
    /\ pc = "done"
    /\ Len(probe) = 1
    /\ FilledPixels(probe[1]) * 10 = 6 * probe[1].total
    /\ LastLabel = "N"
    /\ fen_position[Len(fen_position)] = "N"

(***************************************************************************)
(* C15: the position string has exactly 8 fields separated by '/'; field i *)
(* expands to the 8 cells of grid row i, the top row first; every digit is *)
(* between 1 and 8 and stands for a maximal run of Empty cells, so no two  *)
(* digits are adjacent.                                                    *)
(***************************************************************************)
FenFields == SplitSlash(fen_position, 1, <<>>, <<>>)

C15_FieldsAndRuns ==
    pc = "done" =>
        LET fields == FenFields
        IN  /\ Len(fields) = 8
            /\ \A i \in 1 .. Len(fields) :
                  LET f == fields[i]
                      cells_of_f == ExpandField(f, 1)
                  IN  /\ Len(cells_of_f) = 8
                      /\ cells_of_f = BoardRows(board)[i]
                      /\ \A j \in 1 .. Len(f) :
                            IsDigit(f[j]) =>
                              /\ DigitValue(f[j]) \in 1 .. 8
                              /\ j > 1 => ~IsDigit(f[j - 1])
                              /\ j < Len(f) => ~IsDigit(f[j + 1])

C15_Witness ==
    /\ pc = "done"
    /\ FenFields[1] = <<"2", "P", "1", "?", "3">>
    /\ board[0][0] = "." /\ board[0][2] = "P" /\ board[0][7] = "."

(***************************************************************************)
(* C16: in the emitted string the run-length digits sum to empty_count,    *)
(* the uppercase letters number white_count and the lowercase letters      *)
(* black_count.                                                            *)
(***************************************************************************)
RECURSIVE SumDigits(_, _)
SumDigits(s, i) ==
    IF i > Len(s) THEN 0
    ELSE (IF IsDigit(s[i]) THEN DigitValue(s[i]) ELSE 0) + SumDigits(s, i + 1)

CountChars(s, S) == Cardinality({i \in 1 .. Len(s) : s[i] \in S})

C16_CountsAgreeWithString ==
    pc = "done" =>
        /\ SumDigits(fen_position, 1) = empty_count
        /\ CountChars(fen_position, UpperLetters) = white_count
        /\ CountChars(fen_position, LowerLetters) = black_count

C16_Witness ==
    /\ pc = "done"
    /\ cells[0][0] = "missing"
    /\ cells[3][3] = "unknown_light"
    /\ cells[3][4] = "white_rook_dark"
    /\ SumDigits(fen_position, 1) = 30
    /\ empty_count = 30
    /\ white_count = 17
    /\ black_count = 15

(***************************************************************************)
(* C17: the classification of a cell never fails: whether the file of the  *)
(* cell is missing, decodable or undecodable, the loop stores a label for  *)
(* the cell and goes on to the next cell without raising.                  *)
(***************************************************************************)
C17_ClassificationNeverFails ==
    /\ pc # "crashed"
    /\ LoopDone => \A r \in Idx, c \in Idx : board[r][c] \in Labels

(***************************************************************************)
(* C18: the label of a cell depends on the image of that cell only:        *)
(* with the iterations run in any interleaving of the workers, the final   *)
(* board grid and the three counts are those of the row-major loop.        *)
(***************************************************************************)
\* the label the row-major loop stores for a cell file
RowMajorLabel(filename) ==
    IF filename = "missing" THEN "?"
    ELSE LET cell == Image(filename)
             cell_color == get_cell_color(cell)
             piece_color == get_piece_color(cell, cell_color)
         IN  IF is_cell_empty(cell, cell_color) THEN "."
             ELSE IF piece_color = "?" THEN "?"
             ELSE IF piece_color = "w"
                  THEN Upper(guess_piece_type(cell, piece_color, cell_color))
             ELSE Lower(guess_piece_type(cell, piece_color, cell_color))

\* what one iteration of the row-major loop adds to the counter of a kind
RowMajorIncrement(filename, kind) ==
    IF filename = "missing" THEN 0
    ELSE IF kind = "empty" THEN (IF RowMajorLabel(filename) = "." THEN 1 ELSE 0)
    ELSE IF kind = "white" THEN (IF RowMajorLabel(filename) \in UpperLetters THEN 1 ELSE 0)
    ELSE (IF RowMajorLabel(filename) \in LowerLetters THEN 1 ELSE 0)

RECURSIVE RowMajorCount(_, _, _)
\* the counter of a kind after the row-major loop from cell number n on
RowMajorCount(files, n, kind) ==
    IF n = N * N THEN 0
    ELSE RowMajorIncrement(files[n \div N][n % N], kind) + RowMajorCount(files, n + 1, kind)

RowMajorResult(files) ==
    [board |-> [r \in Idx |-> [c \in Idx |-> RowMajorLabel(files[r][c])]],
     empty_count |-> RowMajorCount(files, 0, "empty"),
     white_count |-> RowMajorCount(files, 0, "white"),
     black_count |-> RowMajorCount(files, 0, "black")]

HasChar(s, ch) == \E i \in 1 .. Len(s) : s[i] = ch
Malformed(s) == HasChar(s, "?") \/ ~HasChar(s, "K") \/ ~HasChar(s, "k")

C19_MalformedRejected ==
    (pc = "s4_position" /\ results_file.kind # "absent" /\ Malformed(results_file.text)) =>
        /\ s4_loaded = FALSE
        /\ s4_board = StartingRows

(***************************************************************************)
(* C20: when no analysis is running, a pawn of the side to move is         *)
(* selected and the click falls on a square of that side's last rank to    *)
(* which the pawn can legally move, the promotion dialog is shown.         *)
(***************************************************************************)
CanPromoteTo(square) ==
    /\ ~is_analyzing
    /\ selected_square # NoSquare
    /\ Lower(gui_board[selected_square]) = "p"
    /\ PieceColor(gui_board[selected_square]) = turn
    /\ square_rank(square) = LastRank(turn)
    /\ \E promo \in PromotionPieces :
          is_legal(gui_board, turn, Move(selected_square, square, promo))

C20_PromotionDialogShown ==
    [][\A square \in ClickSquares :
          (CanPromoteTo(square) /\ on_board_click(square)) =>
              (promotion_dialog' = TRUE /\ promotion_move'.to_square = square)]_vars

(***************************************************************************)
(* database.py: ChessDatabase on one sqlite3 connection.  A call is one    *)
(* step.  fails names the execute of the call that raises (0: none), as a  *)
(* locked or full database makes it raise.  A statement that raises        *)
(* changes nothing; conn.rollback() undoes only what was not committed.    *)
(* Foreign keys are not enforced (no PRAGMA foreign_keys).                 *)
(***************************************************************************)
MaxGames == 1
MaxAnalyses == 2

\* game_id of save_analysis: None (0) or an id that create_game has returned
GameIds == 0 .. Len(db_games)

\* lines 247-281 without the failure: UPDATE users ... WHERE user_id = ?
UpdateUsers(users, user_id, games_played, analysis_count) ==
    IF users[user_id].present
    THEN [users EXCEPT ![user_id].games_played = @ + games_played,
                       ![user_id].analysis_count = @ + analysis_count]
    ELSE users

\* lines 247-281: the UPDATE raises, the handler of line 278 rolls back and
\* returns False; the callers ignore the result
update_user_stats(users, user_id, games_played, analysis_count, raises) ==
    IF raises THEN users
    ELSE UpdateUsers(users, user_id, games_played, analysis_count)

\* lines 171-245
get_or_create_user(user_id, username, fails) ==
    /\ pc = "db"
    /\ LET found == db_users[user_id].present
           \* the INSERT INTO user_settings (line 218) meets a row with the same PRIMARY KEY
           conflict == user_id \in db_settings
           \* the execute named by fails is reached and raises
           injected == IF found THEN fails \in {1, 2} ELSE fails \in {1, 2, 3}
           raised == injected \/ (~found /\ conflict)
           user == [present |-> TRUE, username |-> username,
                    games_played |-> 0, analysis_count |-> 0]
       IN  IF raised
           THEN \* line 244: rollback; the INSERT INTO users of this call was not committed
                /\ db_call' = [op |-> "get_or_create_user", user_id |-> user_id,
                               injected |-> injected, returned |-> <<>>]
                /\ UNCHANGED <<db_users, db_settings>>
           ELSE IF found
           THEN \* lines 199-208: only last_active changes
                /\ db_call' = [op |-> "get_or_create_user", user_id |-> user_id,
                               injected |-> injected, returned |-> <<db_users[user_id]>>]
                /\ UNCHANGED <<db_users, db_settings>>
           ELSE \* lines 209-240
                /\ db_users' = [db_users EXCEPT ![user_id] = user]
                /\ db_settings' = db_settings \cup {user_id}
                /\ db_call' = [op |-> "get_or_create_user", user_id |-> user_id,
                               injected |-> injected, returned |-> <<user>>]
    /\ UNCHANGED <<db_games, db_analyses, db_returned>>
    /\ UNCHANGED dbframe

\* lines 582-617: a missing settings row is inserted and committed
get_user_settings(user_id, fails) ==
    /\ pc = "db"
    /\ LET found == user_id \in db_settings
           raised == IF found THEN fails = 1 ELSE fails \in {1, 2, 3}
       IN  /\ db_settings' = IF raised \/ found THEN db_settings
                             ELSE db_settings \cup {user_id}
           /\ db_call' = [op |-> "get_user_settings", user_id |-> user_id, injected |-> raised,
                          returned |-> IF raised THEN <<>> ELSE <<user_id>>]
    /\ UNCHANGED <<db_users, db_games, db_analyses, db_returned>>
    /\ UNCHANGED dbframe

\* lines 344-378: INSERT INTO games, commit, then update_user_stats
create_game(user_id, fails) ==
    /\ pc = "db"
    /\ Len(db_games) < MaxGames
    /\ IF fails = 1
       THEN /\ db_call' = [op |-> "create_game", user_id |-> user_id, injected |-> fails # 0,
                           returned |-> <<>>]
            /\ UNCHANGED <<db_users, db_games, db_returned>>
       ELSE /\ db_games' = Append(db_games, [user_id |-> user_id, analysis_count |-> 0])
            /\ db_users' = update_user_stats(db_users, user_id, 1, 0, fails = 2)
            /\ db_call' = [op |-> "create_game", user_id |-> user_id, injected |-> fails # 0,
                           returned |-> <<Len(db_games) + 1>>]
            /\ db_returned' = IF db_users[user_id].present
                              THEN [db_returned EXCEPT ![user_id].games = @ + 1]
                              ELSE db_returned
    /\ UNCHANGED <<db_settings, db_analyses>>
    /\ UNCHANGED dbframe

\* lines 487-547: INSERT INTO analyses, commit; UPDATE games, commit;
\* update_user_stats; the handler of line 544 rolls back and returns None
save_analysis(user_id, game_id, fails) ==
    /\ pc = "db"
    /\ Len(db_analyses) < MaxAnalyses
    /\ LET inserted == Append(db_analyses, [user_id |-> user_id, game_id |-> game_id])
           counted == IF game_id # 0
                      THEN [db_games EXCEPT ![game_id].analysis_count = @ + 1]
                      ELSE db_games
           \* without a game_id the UPDATE of line 531 is not run
           injected == fails \in {1, 3} \/ (fails = 2 /\ game_id # 0)
       IN  IF fails = 1
           THEN /\ db_call' = [op |-> "save_analysis", user_id |-> user_id, injected |-> injected,
                               returned |-> <<>>]
                /\ UNCHANGED <<db_users, db_games, db_analyses, db_returned>>
           ELSE IF fails = 2 /\ game_id # 0
           THEN \* line 531 raises after the commit of line 527
                /\ db_analyses' = inserted
                /\ db_call' = [op |-> "save_analysis", user_id |-> user_id, injected |-> injected,
                               returned |-> <<>>]
                /\ UNCHANGED <<db_users, db_games, db_returned>>
           ELSE /\ db_analyses' = inserted
                /\ db_games' = counted
                /\ db_users' = update_user_stats(db_users, user_id, 0, 1, fails = 3)
                /\ db_call' = [op |-> "save_analysis", user_id |-> user_id, injected |-> injected,
                               returned |-> <<Len(db_analyses) + 1>>]
                /\ db_returned' = IF db_users[user_id].present
                                  THEN [db_returned EXCEPT ![user_id].analyses = @ + 1]
                                  ELSE db_returned
    /\ UNCHANGED db_settings
    /\ UNCHANGED dbframe

InitDb ==
    /\ pc = "db"
    /\ row = 0
    /\ col = 0
    /\ Step3Idle
    /\ Step0Idle
    /\ Step4Idle
    /\ GuiIdle
    /\ DbIdle
    /\ EngineIdle
    /\ AnalysisIdle

NextDb ==
    \/ \E user_id \in UserIds, username \in Names, fails \in 0 .. 3 :
          get_or_create_user(user_id, username, fails)
    \/ \E user_id \in UserIds, fails \in 0 .. 3 : get_user_settings(user_id, fails)
    \/ \E user_id \in UserIds, fails \in 0 .. 2 : create_game(user_id, fails)
    \/ \E user_id \in UserIds, game_id \in GameIds, fails \in 0 .. 3 :
          save_analysis(user_id, game_id, fails)

SpecDb == InitDb /\ [][NextDb]_vars

(***************************************************************************)
(* C21: for a user created by get_or_create_user, after any sequence of    *)
(* create_game and save_analysis calls, users.games_played is the number   *)
(* of create_game calls that returned a game id, users.analysis_count is   *)
(* the number of save_analysis calls that returned an analysis id, and     *)
(* each game's analysis_count is the number of analyses rows carrying its  *)
(* game_id.                                                                *)
(***************************************************************************)
AnalysesOf(game_id) ==
    Cardinality({a \in 1 .. Len(db_analyses) : db_analyses[a].game_id = game_id})

C21_CountersMatchCalls ==
    /\ \A u \in UserIds :
          db_users[u].present =>
              /\ db_users[u].games_played = db_returned[u].games
              /\ db_users[u].analysis_count = db_returned[u].analyses
    /\ \A g \in 1 .. Len(db_games) : db_games[g].analysis_count = AnalysesOf(g)

(***************************************************************************)
(* C22: in every reachable state of the database, also one where           *)
(* get_user_settings(u) ran before user u was created, a call              *)
(* get_or_create_user(u) that meets no failure of the database returns a   *)
(* non-empty record and leaves a users row and a user_settings row for u;  *)
(* a call for an existing user creates no row and changes no name field    *)
(* and no counter.                                                         *)
(***************************************************************************)
UserReturned ==
    (db_call.op = "get_or_create_user" /\ ~db_call.injected) =>
        /\ Len(db_call.returned) = 1
        /\ db_users[db_call.user_id].present
        /\ db_call.user_id \in db_settings

ExistingUserKept ==
    \A user_id \in UserIds, username \in Names, fails \in 0 .. 3 :
        (db_users[user_id].present /\ get_or_create_user(user_id, username, fails)) =>
            (db_users' = db_users /\ db_settings' = db_settings)

C22_GetOrCreateUser == [](UserReturned) /\ [][ExistingUserKept]_vars

(***************************************************************************)
(* C25: when save_analysis returns None, the database is as it was before  *)
(* the call: no analyses row was added and no counter changed.             *)
(***************************************************************************)
C25_NoneLeavesDatabase ==
    [][\A user_id \in UserIds, game_id \in GameIds, fails \in 0 .. 3 :
          (save_analysis(user_id, game_id, fails) /\ Len(db_call'.returned) = 0) =>
              (db_analyses' = db_analyses /\ db_games' = db_games /\ db_users' = db_users)]_vars

(***************************************************************************)
(* engine.py: ChessEngine.  engine holds the options of the process that   *)
(* self.engine talks to; a call is one step.                               *)
(***************************************************************************)
\* lines 39-47, the entries that reach the engine
default_settings == [skill_level |-> 20, multipv |-> 3, threads |-> 2, hash_size |-> 256]

\* a process started by popen_uci has the engine's own option values
\* (Stockfish: Skill Level 20, Threads 1, Hash 16)
OwnOptions == [running |-> TRUE, skill |-> 20, threads |-> 1, hash |-> 16]

Clamp(lo, x, hi) == IF x < lo THEN lo ELSE IF x > hi THEN hi ELSE x

\* lines 108-137, as the options of the process e after the call
configure_engine(loaded, e, settings) ==
    IF ~loaded THEN e
    ELSE [e EXCEPT !.skill = Clamp(0, settings.skill_level, 20),
                   !.threads = Clamp(1, settings.threads, 128),
                   !.hash = Clamp(1, settings.hash_size, 1048576)]

\* lines 52-106; started is what popen_uci does: it starts a process or raises
LoadEngine(started) ==
    IF started
    THEN /\ engine' = configure_engine(is_engine_loaded, OwnOptions, default_settings)
         /\ is_engine_loaded' = TRUE
         /\ engine_call' = [op |-> "load_engine", skill_level |-> NoSkill,
                            returned |-> TRUE, used |-> NoEngine]
    ELSE /\ engine' = engine
         /\ is_engine_loaded' = FALSE
         /\ engine_call' = [op |-> "load_engine", skill_level |-> NoSkill,
                            returned |-> FALSE, used |-> NoEngine]

\* lines 27-50: the constructor ends with self.load_engine()
ChessEngineInit(started) ==
    /\ pc = "engine_new"
    /\ pc' = "engine"
    /\ LoadEngine(started)
    /\ UNCHANGED <<row, col, step3vars, step0vars, step4vars, guivars, dbvars, analysisvars>>

load_engine(started) ==
    /\ pc = "engine"
    /\ LoadEngine(started)
    /\ UNCHANGED engineframe

\* lines 139-210; raises: self.engine.analyse raises.  returned FALSE is None.
analyze_position(skill_level, raises) ==
    /\ pc = "engine"
    /\ LET level == IF skill_level = NoSkill THEN default_settings.skill_level
                    ELSE skill_level
           \* line 170; an out-of-range value makes engine.configure raise
           configures == level # default_settings.skill_level
           rejected == configures /\ (level < 0 \/ level > 20)
           configured == IF configures /\ ~rejected
                         THEN [engine EXCEPT !.skill = level] ELSE engine
       IN  IF ~is_engine_loaded
           THEN /\ engine_call' = [op |-> "analyze_position", skill_level |-> skill_level,
                                   returned |-> FALSE, used |-> NoEngine]
                /\ UNCHANGED engine
           ELSE /\ engine' = configured
                /\ engine_call' = [op |-> "analyze_position", skill_level |-> skill_level,
                                   returned |-> ~rejected /\ ~raises,
                                   used |-> IF rejected THEN NoEngine ELSE configured]
    /\ UNCHANGED is_engine_loaded
    /\ UNCHANGED engineframe

\* lines 533-543
cleanup ==
    /\ pc = "engine"
    /\ IF engine.running
       THEN /\ engine' = NoEngine
            /\ is_engine_loaded' = FALSE
       ELSE UNCHANGED <<engine, is_engine_loaded>>
    /\ engine_call' = [op |-> "cleanup", skill_level |-> NoSkill,
                       returned |-> FALSE, used |-> NoEngine]
    /\ UNCHANGED engineframe

\* the skill levels given to analyze_position
SkillLevels == {NoSkill, 0, 5, 10, 15, 20, 25}

InitEngine ==
    /\ pc = "engine_new"
    /\ row = 0
    /\ col = 0
    /\ Step3Idle
    /\ Step0Idle
    /\ Step4Idle
    /\ GuiIdle
    /\ DbIdle
    /\ EngineIdle
    /\ AnalysisIdle

NextEngine ==
    \/ \E started \in BOOLEAN : ChessEngineInit(started)
    \/ \E started \in BOOLEAN : load_engine(started)
    \/ \E skill_level \in SkillLevels, raises \in BOOLEAN :
          analyze_position(skill_level, raises)
    \/ cleanup

SpecEngine == InitEngine /\ [][NextEngine]_vars

(***************************************************************************)
(* C23: after load_engine has returned True, also for the first load made  *)
(* by the constructor, the engine process runs with Skill Level 20,        *)
(* Threads 2 and Hash 256.                                                 *)
(***************************************************************************)
C23_LoadedEngineConfigured ==
    (engine_call.op = "load_engine" /\ engine_call.returned) =>
        /\ engine.skill = default_settings.skill_level
        /\ engine.threads = default_settings.threads
        /\ engine.hash = default_settings.hash_size

(***************************************************************************)
(* C24: an analyze_position call with skill_level = None that returns a    *)
(* result has analysed with Skill Level 20, whatever skill levels earlier  *)
(* calls were given.                                                       *)
(***************************************************************************)
C24_DefaultSkillUsed ==
    (engine_call.op = "analyze_position" /\ engine_call.skill_level = NoSkill
        /\ engine_call.returned) =>
        engine_call.used.skill = default_settings.skill_level

(***************************************************************************)
(* The analysis of the two GUIs: chess_analyzer.py (v2.2) and              *)
(* chess_analyzer_gui_complete.py.  Handlers and root.after callbacks run  *)
(* on the main thread, one at a time; an analysis thread runs              *)
(* run_analysis, one statement group per step.  threads[i].pc is the       *)
(* position of thread i; a thread at "configure", "play" or "analyse" has  *)
(* an engine call to make or under way.  The callbacks that only move the  *)
(* progress bar are left out.                                              *)
(***************************************************************************)
\* number of analysis threads started in one run of the window
MaxThreads == 2

promovars == <<promotion_move, promotion_dialog>>
kindvars == <<gui_kind, gui_engine>>

EngineCalls == {"configure", "play", "analyse"}
NewThread == [pc |-> "configure", move |-> NoMove]
Callback(fn, move) == [fn |-> fn, move |-> move]

\* d1, e1, d8, e8: the squares between which the engine's answers move the kings
HintSquares == {3, 4, 59, 60}

\* what engine.play / engine.analyse may answer for the position given to it
EngineMoves(b, t) ==
    {m \in [from_square : HintSquares, to_square : HintSquares, promotion : {None}] :
        is_legal(b, t, m)}

\* chess_analyzer.py lines 759-784, without the test of lines 761-763
start_analysis_unguarded ==
    /\ pc = "analysis_gui"
    /\ gui_kind = "chess_analyzer"
    /\ IF ~gui_engine
       THEN /\ dialog' = "error"
            /\ UNCHANGED <<status, is_analyzing, analyze_button, threads>>
       ELSE /\ Len(threads) < MaxThreads
            /\ is_analyzing' = TRUE
            /\ analyze_button' = "disabled"
            /\ status' = "analysing"
            /\ dialog' = "none"
            /\ threads' = Append(threads, NewThread)
    /\ UNCHANGED <<gui_board, turn, selected_square, best_move, promovars, kindvars,
                   after_queue>>
    /\ UNCHANGED analysisframe

\* chess_analyzer.py lines 759-784
start_analysis ==
    /\ pc = "analysis_gui"
    /\ gui_kind = "chess_analyzer"
    /\ IF is_analyzing
       THEN /\ status' = "analysis already running"
            /\ dialog' = "none"
            /\ UNCHANGED <<is_analyzing, analyze_button, threads>>
       ELSE IF ~gui_engine
       THEN /\ dialog' = "error"
            /\ UNCHANGED <<status, is_analyzing, analyze_button, threads>>
       ELSE /\ Len(threads) < MaxThreads
            /\ is_analyzing' = TRUE
            /\ analyze_button' = "disabled"
            /\ status' = "analysing"
            /\ dialog' = "none"
            /\ threads' = Append(threads, NewThread)
    /\ UNCHANGED <<gui_board, turn, selected_square, best_move, promovars, kindvars,
                   after_queue>>
    /\ UNCHANGED analysisframe

\* chess_analyzer_gui_complete.py lines 739-768; show_error (lines 1014-1017)
\* sets the status line
start_analysis_complete ==
    /\ pc = "analysis_gui"
    /\ gui_kind = "complete"
    /\ IF is_analyzing
       THEN /\ dialog' = "none"
            /\ UNCHANGED <<status, is_analyzing, analyze_button, threads>>
       ELSE IF ~gui_engine
       THEN /\ dialog' = "error"
            /\ status' = "error"
            /\ UNCHANGED <<is_analyzing, analyze_button, threads>>
       ELSE /\ Len(threads) < MaxThreads
            /\ is_analyzing' = TRUE
            /\ analyze_button' = "disabled"
            /\ status' = "analysing"
            /\ dialog' = "none"
            /\ threads' = Append(threads, NewThread)
    /\ UNCHANGED <<gui_board, turn, selected_square, best_move, promovars, kindvars,
                   after_queue>>
    /\ UNCHANGED analysisframe

\* chess_analyzer.py lines 786-837, thread i; raises: the engine call of the
\* step raises
run_analysis(i, raises) ==
    /\ pc = "analysis_gui"
    /\ gui_kind = "chess_analyzer"
    /\ i \in 1 .. Len(threads)
    /\ \/ /\ threads[i].pc = "configure"       \* lines 794-798, an exception is passed over
          /\ threads' = [threads EXCEPT ![i].pc = "play"]
          /\ UNCHANGED <<best_move, after_queue>>
       \/ /\ threads[i].pc = "play"            \* lines 801-802
          /\ IF raises
             THEN /\ threads' = [threads EXCEPT ![i].pc = "except"]
                  /\ UNCHANGED best_move
             ELSE \E m \in EngineMoves(gui_board, turn) :
                     /\ threads' = [threads EXCEPT ![i] = [pc |-> "analyse", move |-> m]]
                     /\ best_move' = m
          /\ UNCHANGED after_queue
       \/ /\ threads[i].pc = "analyse"         \* lines 805-824, an exception is passed over
          /\ threads' = [threads EXCEPT ![i].pc = "deliver"]
          /\ UNCHANGED <<best_move, after_queue>>
       \/ /\ threads[i].pc = "deliver"         \* lines 827-830
          /\ after_queue' = Append(after_queue,
                                   Callback("update_analysis_results", threads[i].move))
          /\ threads' = [threads EXCEPT ![i].pc = "finally"]
          /\ UNCHANGED best_move
       \/ /\ threads[i].pc = "except"          \* lines 832-833
          /\ after_queue' = Append(after_queue, Callback("show_error", NoMove))
          /\ threads' = [threads EXCEPT ![i].pc = "finally"]
          /\ UNCHANGED best_move
       \/ /\ threads[i].pc = "finally"         \* lines 835-837
          /\ after_queue' = Append(after_queue, Callback("analysis_finished", NoMove))
          /\ threads' = [threads EXCEPT ![i].pc = "done"]
          /\ UNCHANGED best_move
    /\ UNCHANGED <<gui_board, turn, selected_square, promovars, is_analyzing, status,
                   kindvars, analyze_button, dialog>>
    /\ UNCHANGED analysisframe

\* chess_analyzer_gui_complete.py lines 770-803, thread i
run_analysis_complete(i, raises) ==
    /\ pc = "analysis_gui"
    /\ gui_kind = "complete"
    /\ i \in 1 .. Len(threads)
    /\ \/ /\ threads[i].pc = "configure"       \* line 774
          /\ threads' = [threads EXCEPT ![i].pc = IF raises THEN "except" ELSE "analyse"]
          /\ UNCHANGED <<is_analyzing, after_queue>>
       \/ /\ threads[i].pc = "analyse"         \* lines 782-794
          /\ IF raises
             THEN threads' = [threads EXCEPT ![i].pc = "except"]
             ELSE \E m \in EngineMoves(gui_board, turn) :
                     threads' = [threads EXCEPT ![i] = [pc |-> "deliver", move |-> m]]
          /\ UNCHANGED <<is_analyzing, after_queue>>
       \/ /\ threads[i].pc = "deliver"         \* line 797
          /\ after_queue' = Append(after_queue,
                                   Callback("display_results", threads[i].move))
          /\ threads' = [threads EXCEPT ![i].pc = "finally"]
          /\ UNCHANGED is_analyzing
       \/ /\ threads[i].pc = "except"          \* lines 799-800
          /\ after_queue' = Append(after_queue, Callback("show_error", NoMove))
          /\ threads' = [threads EXCEPT ![i].pc = "finally"]
          /\ UNCHANGED is_analyzing
       \/ /\ threads[i].pc = "finally"         \* line 802
          /\ is_analyzing' = FALSE
          /\ threads' = [threads EXCEPT ![i].pc = "enable"]
          /\ UNCHANGED after_queue
       \/ /\ threads[i].pc = "enable"          \* line 803
          /\ after_queue' = Append(after_queue, Callback("enable_button", NoMove))
          /\ threads' = [threads EXCEPT ![i].pc = "done"]
          /\ UNCHANGED is_analyzing
    /\ UNCHANGED <<gui_board, turn, selected_square, promovars, best_move, status,
                   kindvars, analyze_button, dialog>>
    /\ UNCHANGED analysisframe

\* chess_analyzer.py lines 995-1000, with the flag left as it is
analysis_finished_keeps_flag ==
    /\ analyze_button' = "normal"
    /\ status' = "analysis finished"
    /\ dialog' = "none"
    /\ UNCHANGED <<is_analyzing, best_move>>

\* chess_analyzer.py lines 995-1000
analysis_finished ==
    /\ is_analyzing' = FALSE
    /\ analyze_button' = "normal"
    /\ status' = "analysis finished"
    /\ dialog' = "none"
    /\ UNCHANGED best_move

\* chess_analyzer_gui_complete.py lines 805-944: board.san (line 820) raises for
\* a move whose from-square is empty, and the status line is not reached
display_results(move) ==
    /\ best_move' = move
    /\ status' = IF gui_board[move.from_square] # "." THEN "analysis finished" ELSE status
    /\ dialog' = "none"
    /\ UNCHANGED <<is_analyzing, analyze_button>>

\* the main loop runs the oldest callback given to root.after
MainLoop ==
    /\ pc = "analysis_gui"
    /\ after_queue # <<>>
    /\ after_queue' = Tail(after_queue)
    /\ LET cb == Head(after_queue)
       IN  \/ cb.fn = "analysis_finished" /\ analysis_finished
           \/ cb.fn = "display_results" /\ display_results(cb.move)
           \/ /\ cb.fn = "update_analysis_results"   \* chess_analyzer.py lines 839-993: text only
              /\ dialog' = "none"
              /\ UNCHANGED <<is_analyzing, analyze_button, best_move, status>>
           \/ /\ cb.fn = "show_error"
              /\ dialog' = "error"
              /\ status' = IF gui_kind = "complete" THEN "error" ELSE status
              /\ UNCHANGED <<is_analyzing, analyze_button, best_move>>
           \/ /\ cb.fn = "enable_button"             \* the lambda of line 803
              /\ analyze_button' = "normal"
              /\ dialog' = "none"
              /\ UNCHANGED <<is_analyzing, best_move, status>>
    /\ UNCHANGED <<gui_board, turn, selected_square, promovars, kindvars, threads>>
    /\ UNCHANGED analysisframe

\* chess_analyzer_gui_complete.py lines 950-963.  board.push asserts that the
\* from-square holds a piece; board.san(self.best_move) of line 959 is called
\* after line 956 has set self.best_move = None, and raises.
make_best_move ==
    /\ pc = "analysis_gui"
    /\ gui_kind = "complete"
    /\ IF best_move # NoMove
       THEN IF gui_board[best_move.from_square] = "."
            THEN \* line 954 raises; lines 960-961
                 /\ dialog' = "error"
                 /\ status' = "error"
                 /\ UNCHANGED <<gui_board, turn, selected_square, best_move>>
            ELSE \* lines 954-958, then line 959 raises; lines 960-961
                 /\ gui_board' = push(gui_board, turn, best_move)
                 /\ turn' = Opponent(turn)
                 /\ selected_square' = NoSquare
                 /\ best_move' = NoMove
                 /\ dialog' = "error"
                 /\ status' = "error"
       ELSE \* lines 962-963
            /\ dialog' = "info"
            /\ UNCHANGED <<gui_board, turn, selected_square, best_move, status>>
    /\ UNCHANGED <<promovars, is_analyzing, kindvars, analyze_button, threads, after_queue>>
    /\ UNCHANGED analysisframe

\* the two kings on e1 and e8
KingsPosition ==
    [sq \in Squares |-> IF sq = 4 THEN "K" ELSE IF sq = 60 THEN "k" ELSE "."]

\* the window of either GUI after load_fen_dialog of such a position, the engine loaded or not
\* (load_engine), the white king selected or not
InitAnalysis ==
    /\ pc = "analysis_gui"
    /\ row = 0
    /\ col = 0
    /\ Step3Idle
    /\ Step0Idle
    /\ Step4Idle
    /\ DbIdle
    /\ EngineIdle
    /\ gui_board = KingsPosition
    /\ turn = "w"
    /\ selected_square \in {NoSquare, 4}
    /\ promotion_move = NoMove
    /\ promotion_dialog = FALSE
    /\ is_analyzing = FALSE
    /\ best_move = NoMove
    /\ status = "ready"
    /\ gui_kind \in {"chess_analyzer", "complete"}
    /\ gui_engine \in BOOLEAN
    /\ analyze_button = "normal"
    /\ threads = <<>>
    /\ after_queue = <<>>
    /\ dialog = "none"

ThreadStep(i) ==
    \E raises \in BOOLEAN : run_analysis(i, raises) \/ run_analysis_complete(i, raises)

\* the analyses alone: the position stays as it is
NextAnalysis ==
    \/ start_analysis
    \/ start_analysis_complete
    \/ \E i \in 1 .. MaxThreads : ThreadStep(i)
    \/ MainLoop

SpecAnalysis == InitAnalysis /\ [][NextAnalysis]_vars

\* the analyses and the button that plays the best move
NextBestMove ==
    \/ NextAnalysis
    \/ make_best_move

SpecBestMove == InitAnalysis /\ [][NextBestMove]_vars

\* every thread that can run does run, and the main loop keeps running callbacks
FairAnalysis ==
    /\ \A i \in 1 .. MaxThreads : WF_vars(ThreadStep(i))
    /\ WF_vars(MainLoop)

SpecAnalysisFair == SpecAnalysis /\ FairAnalysis

(***************************************************************************)
(* C26: in the complete GUI, make_best_move with a best move available     *)
(* pushes that move onto the board, clears best_move and the selection     *)
(* and reports the move as made; it shows the error dialog only when the   *)
(* board was left unchanged.                                               *)
(***************************************************************************)
C26_BestMoveMade ==
    [][(best_move # NoMove /\ make_best_move) =>
          /\ gui_board' = push(gui_board, turn, best_move)
          /\ best_move' = NoMove
          /\ selected_square' = NoSquare
          /\ status' = "move made"
          /\ (dialog' = "error" => gui_board' = gui_board)]_vars

(***************************************************************************)
(* C27: in both GUIs at most one analysis thread has engine calls to make  *)
(* or under way, and is_analyzing is True while it has; start_analysis     *)
(* invoked while is_analyzing is True starts no thread.                    *)
(***************************************************************************)
InFlight == {i \in 1 .. Len(threads) : threads[i].pc \in EngineCalls}

OneInFlight ==
    /\ Cardinality(InFlight) <= 1
    /\ InFlight # {} => is_analyzing

BusyStartsNothing ==
    (is_analyzing /\ (start_analysis \/ start_analysis_complete)) =>
        UNCHANGED <<threads, is_analyzing, after_queue>>

C27_OneAnalysisInFlight == [](OneInFlight) /\ [][BusyStartsNothing]_vars

\* start_analysis was refused while the second analysis was calling the engine
C27_Witness ==
    /\ Len(threads) >= 2
    /\ threads[1].pc = "done"
    /\ threads[2].pc \in EngineCalls
    /\ status = "analysis already running"
    /\ is_analyzing

(***************************************************************************)
(* C28: while the main loop keeps running callbacks and the threads keep   *)
(* running, every analysis that was started ends and is followed by a      *)
(* state with is_analyzing = False and the analyse button enabled,         *)
(* whether the engine answered or raised.                                  *)
(***************************************************************************)
C28_AnalysisEnds ==
    \A i \in 1 .. MaxThreads :
        (Len(threads) >= i) ~>
            (/\ Len(threads) >= i
             /\ threads[i].pc = "done"
             /\ ~is_analyzing
             /\ analyze_button = "normal")

\* one analysis ended after the engine raised, the next after an answer
C28_Witness ==
    /\ Len(threads) >= 2
    /\ threads[1].pc = "done"
    /\ threads[1].move = NoMove
    /\ threads[2].pc = "done"
    /\ threads[2].move # NoMove
    /\ ~is_analyzing
    /\ analyze_button = "normal"
    /\ after_queue = <<>>

=============================================================================
